---- MODULE Spec2Model ----
(***************************************************************************)
(* Model of the AI-Media literary analysis server.                         *)
(*                                                                         *)
(*   SpecBook   : the book service (bookAnalysesMap, analyzeBook,          *)
(*                analyzeChunks, getAnalysisResults, the analysis cache)   *)
(*                with any number of analysis runs interleaved at their    *)
(*                await points.                                            *)
(*   SpecStream : one POST /api/rewrite-stream request: the loop over the  *)
(*                document chunks, the backend's frames cut into transport *)
(*                chunks at any byte, the data handler and the events      *)
(*                written to the caller.                                   *)
(***************************************************************************)
EXTENDS Integers, Sequences, FiniteSets, TLC

(***************************************************************************)
(* Bounds of the model.                                                    *)
(***************************************************************************)
\* most chunks chunkText() returns for one book
MaxChunks == 2
\* most BookAnalysis objects ever constructed
MaxObjs == 2
\* most analyzeBook() runs ever started
MaxRuns == 2
\* most document chunks in the structure of a rewrite request
MaxDocChunks == 2
\* most frames the backend sends during one rewrite request
MaxFrames == 2
\* most symbols in the response fragment of one frame
MaxFragLen == 2
\* most transport chunks of one rewrite request that end inside a frame
MaxCuts == 1
\* pieces a backend reply is put together from
MaxPieces == 5
\* paragraphs of a text given to chunkText
MaxParas == 4
\* chunks of the book whose synthesis is followed in detail
MaxSynthChunks == 2
\* character mentions in one chunk analysis
MaxMentions == 2
\* chunks whose key quotes are collected, and most key quotes of one chunk
MaxQuoteChunks == 3
MaxChunkQuotes == 5

\* lines of a reply of the model to analyzeChunk
MaxReplyLines == 4
\* most pages of the document in the viewer
MaxViewerPages == 4

(***************************************************************************)
(* Values.                                                                 *)
(***************************************************************************)
\* Book identifiers are file names, modelled as short character sequences.
BookIds == {<<"a", ".">>, <<"a", "_">>}

\* `null` of startTime / endTime
NoTime == 0
\* new Date().toISOString() read by run r: a timestamp is modelled by the run
\* that read it (runs are numbered from 1)
Now(r) == r
\* `null` of analysisStatus.error
NoError == "null"
\* Math.round(0 / 0 * 100): NaN
NaN == -1
\* no entry in bookAnalysesMap (Map.get gives undefined)
NoObj == 0
\* parseInt of a text without a leading number: NaN
NotANumber == -1000
\* chunk.analysis = null
NoAnalysis == [chunkId |-> 0, run |-> 0, bad |-> FALSE]
\* the globalAnalysis the BookAnalysis constructor builds: empty aggregates
EmptyGlobal == [run |-> 0, from |-> <<>>]
\* no cache file
NoCache == [present |-> FALSE]

VARIABLES
    bookAnalysesMap,  \* bookId -> index into heap, or NoObj
    heap,             \* the BookAnalysis objects ever constructed
    cache,            \* cache file name -> file content, or NoCache
    runs,             \* the analyzeBook() invocations that got past the guards
    lastResult,       \* what the last request returned to its caller
    \* POST /api/rewrite-stream
    total,                \* structure.length
    index,                \* the loop variable i
    pc,                   \* where the handler stands
    insideThinkingBlock,
    buffer,
    out,                  \* what reached res, in order: events and res.end()
    wire,                 \* bytes the backend sent that were not delivered yet
    backendOpen,          \* the backend has not closed the current stream
    sent,                 \* fragments the backend sent on the current stream
    cutInFrame,           \* a transport chunk of this stream ended inside a frame
    framesLeft,           \* frames the backend may still send
    cutsLeft,             \* transport chunks that may still end inside a frame
    disconnected,         \* the caller of the streaming rewrite went away
    \* one reply of the model backend and what is made of it
    reply,                \* response.data.response
    shown,                \* the user-visible value derived from it
    \* one call of chunkText
    chunkInput,           \* [text, maxTokens, minTokens]
    chunkOutput,          \* the chunks returned, or NotRun
    \* one analyzeBook run on a freshly loaded book, with its data
    bookAnalysis,         \* the BookAnalysis entry of the book
    synthesis,            \* the run: where it stands and what it holds
    \* one call of identifyKeyQuotes
    collected,            \* allQuotes, or NotCollected
    selected,             \* selectedQuotes, or NotRun
    \* one call of analyzeChunk
    modelReply,           \* what the request to the model gave
    parsedAnalysis,       \* what analyzeChunk gave its caller
    \* the PDF viewer of the client
    viewer                \* its module variables and its pending renders

bookVars == <<bookAnalysesMap, heap, cache, runs, lastResult>>
streamVars == <<total, index, pc, insideThinkingBlock, buffer, out, wire,
                backendOpen, sent, cutInFrame, framesLeft, cutsLeft, disconnected>>
stripVars == <<reply, shown>>
chunkVars == <<chunkInput, chunkOutput>>
\* the state of the pure functions checked on their own
synthVars == <<bookAnalysis, synthesis>>
quoteVars == <<collected, selected>>
parseVars == <<modelReply, parsedAnalysis>>
restVars == <<quoteVars, parseVars, viewer>>
fnVars == <<stripVars, chunkVars, synthVars, restVars>>
notStrip == <<bookVars, streamVars, chunkVars, synthVars, restVars>>
notChunk == <<bookVars, streamVars, stripVars, synthVars, restVars>>
notSynth == <<bookVars, streamVars, stripVars, chunkVars, restVars>>
\* what the three machines below leave alone
notRest == <<bookVars, streamVars, stripVars, chunkVars, synthVars>>
vars == <<bookAnalysesMap, heap, cache, runs, lastResult,
          total, index, pc, insideThinkingBlock, buffer, out, wire,
          backendOpen, sent, cutInFrame, framesLeft, cutsLeft, disconnected,
          reply, shown, chunkInput, chunkOutput, bookAnalysis, synthesis,
          collected, selected, modelReply, parsedAnalysis, viewer>>

(***************************************************************************)
(* Pure helpers.                                                           *)
(***************************************************************************)
\* bookId.replace(/[^a-z0-9]/gi, '_').toLowerCase(), per character
SafeChar(c) == IF c \in {"a", "b", "0", "1"} THEN c
               ELSE IF c = "A" THEN "a"
               ELSE IF c = "B" THEN "b"
               ELSE "_"

getAnalysisCachePath(bookId) == [k \in DOMAIN bookId |-> SafeChar(bookId[k])]

CachePaths == {getAnalysisCachePath(b) : b \in BookIds}

\* Math.round((current / total) * 100); Math.round rounds halves up.
RoundPercent(cur, tot) ==
    IF tot = 0 THEN NaN
    ELSE (200 * cur + tot) \div (2 * tot)

\* new BookAnalysis(bookInfo) followed by chunks / totalChunks assignment
NewBookAnalysis(bookId, n) ==
    [ bookInfo       |-> bookId,
      chunks         |-> [k \in 1..n |-> NoAnalysis],
      globalAnalysis |-> EmptyGlobal,
      chunksAnalyzed |-> 0,
      totalChunks    |-> n,
      startTime      |-> NoTime,
      endTime        |-> NoTime,
      status         |-> "pending",
      error          |-> NoError ]

\* the object loadAnalysisFromCache builds from a cache file
FromCache(file) ==
    [ bookInfo       |-> file.bookInfo,
      chunks         |-> <<>>,
      globalAnalysis |-> file.globalAnalysis,
      chunksAnalyzed |-> file.chunksAnalyzed,
      totalChunks    |-> file.totalChunks,
      startTime      |-> file.startTime,
      endTime        |-> file.endTime,
      status         |-> file.status,
      error          |-> file.error ]

\* the analysisData saveAnalysisToCache serialises
CacheFile(o) ==
    [ present        |-> TRUE,
      bookInfo       |-> o.bookInfo,
      globalAnalysis |-> o.globalAnalysis,
      chunksAnalyzed |-> o.chunksAnalyzed,
      totalChunks    |-> o.totalChunks,
      startTime      |-> o.startTime,
      endTime        |-> o.endTime,
      status         |-> o.status,
      error          |-> o.error,
      chunkCount     |-> Len(o.chunks) ]

\* saveAnalysisToCache: nothing is written unless the status is completed;
\* a failed write is swallowed.
saveAnalysisToCache(c, bookId, o, writeOk) ==
    IF o.status # "completed" \/ ~writeOk THEN c
    ELSE [c EXCEPT ![getAnalysisCachePath(bookId)] = CacheFile(o)]

(***************************************************************************)
(* analyzeBook: the writes to the captured bookAnalysis object.            *)
(***************************************************************************)
\* "Reset analysis status"
ResetStatus(o, now) ==
    [o EXCEPT !.status = "in-progress",
              !.startTime = now,
              !.chunksAnalyzed = 0,
              !.error = NoError]

\* progressCallback
progressCallback(o, current) == [o EXCEPT !.chunksAnalyzed = current]

\* chunkAnalyses.forEach((analysis, index) => chunks[index].analysis = analysis)
AttachAnalyses(o, analyses) ==
    [o EXCEPT !.chunks = [k \in DOMAIN o.chunks |->
                             IF k <= Len(analyses) THEN analyses[k] ELSE o.chunks[k]]]

\* the try block's tail after synthesis returned
MarkCompleted(o, global, now) ==
    [o EXCEPT !.globalAnalysis = global,
              !.status = "completed",
              !.endTime = now]

\* a catch block that records the message and forgets the status
MarkFailed_KeepsStatus(o, message) == [o EXCEPT !.error = message]

\* the catch block
MarkFailed(o, message) ==
    [o EXCEPT !.status = "failed", !.error = message]

\* the analyses the synthesizer finds attached to the chunks
Attached(o) == SelectSeq(o.chunks, LAMBDA a : a # NoAnalysis)

\* aggregateCharacters & co. call forEach on the lists of every attached
\* analysis: a non-list field taken from the model's JSON makes them throw.
SynthesisThrows(o) == \E k \in DOMAIN o.chunks : o.chunks[k].bad

(***************************************************************************)
(* getAnalysisResults                                                      *)
(***************************************************************************)
\* getAnalysisResults without the check for a failed analysis
ResultOf_NoFailedCase(bookId, o) ==
    IF o.status \in {"in-progress", "pending"}
    THEN [ success |-> TRUE, bookId |-> bookId, status |-> o.status,
           progress |-> [ current |-> o.chunksAnalyzed,
                          total |-> o.totalChunks,
                          percentage |-> RoundPercent(o.chunksAnalyzed, o.totalChunks) ] ]
    ELSE [ success |-> TRUE, bookId |-> bookId, status |-> o.status,
           bookInfo |-> o.bookInfo,
           analysis |-> o.globalAnalysis,
           stats |-> [ chunksAnalyzed |-> o.chunksAnalyzed,
                       totalChunks |-> o.totalChunks,
                       startTime |-> o.startTime,
                       endTime |-> o.endTime ] ]

ResultOf(bookId, o) ==
    IF o.status \in {"in-progress", "pending"}
    THEN [ success |-> TRUE, bookId |-> bookId, status |-> o.status,
           progress |-> [ current |-> o.chunksAnalyzed,
                          total |-> o.totalChunks,
                          percentage |-> RoundPercent(o.chunksAnalyzed, o.totalChunks) ] ]
    ELSE IF o.status = "failed"
    THEN [ success |-> FALSE, bookId |-> bookId, status |-> o.status,
           error |-> o.error ]
    ELSE [ success |-> TRUE, bookId |-> bookId, status |-> o.status,
           bookInfo |-> o.bookInfo,
           analysis |-> o.globalAnalysis,
           stats |-> [ chunksAnalyzed |-> o.chunksAnalyzed,
                       totalChunks |-> o.totalChunks,
                       startTime |-> o.startTime,
                       endTime |-> o.endTime ] ]

getAnalysisResults(bookId) ==
    IF bookAnalysesMap[bookId] = NoObj
    THEN [ success |-> FALSE, status |-> "not_found" ]
    ELSE ResultOf(bookId, heap[bookAnalysesMap[bookId]])

(***************************************************************************)
(* Initial state: nothing loaded, no cache file.                           *)
(***************************************************************************)
InitBook ==
    /\ bookAnalysesMap = [b \in BookIds |-> NoObj]
    /\ heap = <<>>
    /\ cache = [p \in CachePaths |-> NoCache]
    /\ runs = <<>>
    /\ lastResult = [op |-> "none"]

(***************************************************************************)
(* loadAndProcessBook(pdfPath, bookId, {force}); pdftotext succeeds or not *)
(* and chunkText returns 0..MaxChunks chunks.                              *)
(***************************************************************************)
loadAndProcessBook(bookId, force) ==
    /\ UNCHANGED <<streamVars, fnVars>>
    /\ UNCHANGED <<cache, runs>>
    /\ IF bookAnalysesMap[bookId] # NoObj /\ ~force
       THEN /\ lastResult' = [op |-> "load", status |-> "exists"]
            /\ UNCHANGED <<bookAnalysesMap, heap>>
       ELSE IF ~force /\ cache[getAnalysisCachePath(bookId)].present
       THEN /\ Len(heap) < MaxObjs
            /\ heap' = Append(heap, FromCache(cache[getAnalysisCachePath(bookId)]))
            /\ bookAnalysesMap' = [bookAnalysesMap EXCEPT ![bookId] = Len(heap) + 1]
            /\ lastResult' = [op |-> "load", status |-> "cached"]
       ELSE \/ /\ lastResult' = [op |-> "load", status |-> "error"]
               /\ UNCHANGED <<bookAnalysesMap, heap>>
            \/ \E n \in 0..MaxChunks :
                  /\ Len(heap) < MaxObjs
                  /\ heap' = Append(heap, NewBookAnalysis(bookId, n))
                  /\ bookAnalysesMap' = [bookAnalysesMap EXCEPT ![bookId] = Len(heap) + 1]
                  /\ lastResult' = [op |-> "load", status |-> "processed"]

(***************************************************************************)
(* analyzeBook(bookId, {force}) up to its first await.                     *)
(***************************************************************************)
\* an early-return guard that looks at the force option alone
AlreadyCompleted_IgnoresStatus(bookId, force) ==
    /\ bookAnalysesMap[bookId] # NoObj
    /\ force

\* The guard of the early return.
AlreadyCompleted(bookId, force) ==
    /\ bookAnalysesMap[bookId] # NoObj
    /\ heap[bookAnalysesMap[bookId]].status = "completed"
    /\ ~force

\* What the run does once analyzeChunks has returned `analyses`: attach them,
\* then enter synthesizeBookAnalysis, whose aggregation runs synchronously up
\* to the plot summary request.
AfterChunks(r, run, obj, analyses) ==
    LET attached == AttachAnalyses(obj, analyses) IN
    IF SynthesisThrows(attached)
    THEN /\ heap' = [heap EXCEPT ![run.obj] = MarkFailed(attached, "synthesis error")]
         /\ runs' = [runs EXCEPT ![r] = [run EXCEPT !.pc = "failed", !.analyses = <<>>,
                                                   !.progress = <<>>]]
    ELSE /\ heap' = [heap EXCEPT ![run.obj] = attached]
         /\ runs' = [runs EXCEPT ![r] = [run EXCEPT !.pc = "plot", !.analyses = analyses,
                                                   !.agg = Attached(attached)]]

analyzeBook(bookId, force) ==
    IF AlreadyCompleted(bookId, force)
    THEN /\ lastResult' = [op |-> "analyze", bookId |-> bookId, force |-> force,
                           success |-> TRUE, message |-> "Analysis already completed"]
         /\ UNCHANGED <<bookAnalysesMap, heap, cache, runs>>
    ELSE IF bookAnalysesMap[bookId] = NoObj
    THEN /\ lastResult' = [op |-> "analyze", bookId |-> bookId, force |-> force,
                           success |-> FALSE, message |-> "throws"]
         /\ UNCHANGED <<bookAnalysesMap, heap, cache, runs>>
    ELSE LET o == bookAnalysesMap[bookId]
             r == Len(runs) + 1
             run == [ bookId |-> bookId, obj |-> o, pc |-> "chunk", i |-> 1,
                      analyses |-> <<>>, progress |-> <<>>, agg |-> <<>> ]
             reset == ResetStatus(heap[o], Now(r))
         IN /\ Len(runs) < MaxRuns
            /\ lastResult' = [op |-> "analyze", bookId |-> bookId, force |-> force,
                              success |-> TRUE, message |-> "started"]
            /\ UNCHANGED <<bookAnalysesMap, cache>>
            /\ IF Len(reset.chunks) = 0
               THEN LET rs == Append(runs, run) IN
                    /\ heap' = [heap EXCEPT ![o] = reset]
                    /\ runs' = [rs EXCEPT ![r].pc = "plot"]
               ELSE /\ heap' = [heap EXCEPT ![o] = reset]
                    /\ runs' = Append(runs, run)

(***************************************************************************)
(* router.post('/:filename/analyze')                                       *)
(***************************************************************************)
PostAnalyze(bookId, force) ==
    /\ UNCHANGED <<streamVars, fnVars>>
    /\ IF bookAnalysesMap[bookId] = NoObj
       THEN /\ lastResult' = [op |-> "analyze", bookId |-> bookId, force |-> force,
                              success |-> FALSE, message |-> "404"]
            /\ UNCHANGED <<bookAnalysesMap, heap, cache, runs>>
       ELSE analyzeBook(bookId, force)

(***************************************************************************)
(* bookService.analyzeBook called as the module exports it, without the    *)
(* router's check in front.                                                *)
(***************************************************************************)
AnalyzeBookCall(bookId, force) ==
    /\ UNCHANGED <<streamVars, fnVars>>
    /\ analyzeBook(bookId, force)

(***************************************************************************)
(* analyzeChunks: the backend answers the request for chunk run.i.         *)
(*   "ok"   a ChunkAnalysis is returned                                    *)
(*   "bad"  a ChunkAnalysis is returned whose parsed JSON put a non-list   *)
(*          where the synthesizer expects a list                           *)
(*   "fail" analyzeChunk throws (network error, non-2xx)                   *)
(***************************************************************************)
ChunkOutcomes == {"ok", "bad", "fail"}

\* the body of the for loop for chunk run.i: push and report progress on
\* success, neither on failure; run.progress lists what the callback was
\* called with
ChunkStep(run, obj, r, outcome) ==
    IF outcome = "fail"
    THEN [analyses |-> run.analyses, progress |-> run.progress, obj |-> obj]
    ELSE [analyses |-> Append(run.analyses,
                              [chunkId |-> run.i, run |-> r, bad |-> (outcome = "bad")]),
          progress |-> Append(run.progress,
                              [current |-> run.i, total |-> Len(obj.chunks)]),
          obj |-> progressCallback(obj, run.i)]

ChunkReply(r, outcome) ==
    /\ r \in DOMAIN runs
    /\ runs[r].pc = "chunk"
    /\ LET run == runs[r]
           step == ChunkStep(run, heap[run.obj], r, outcome)
       IN IF run.i < Len(heap[run.obj].chunks)
          THEN /\ heap' = [heap EXCEPT ![run.obj] = step.obj]
               /\ runs' = [runs EXCEPT ![r] = [run EXCEPT !.i = run.i + 1,
                                                         !.analyses = step.analyses,
                                                         !.progress = step.progress]]
          ELSE AfterChunks(r, [run EXCEPT !.progress = step.progress],
                           step.obj, step.analyses)
    /\ lastResult' = [op |-> "none"]
    /\ UNCHANGED <<bookAnalysesMap, cache>>
    /\ UNCHANGED <<streamVars, fnVars>>

(***************************************************************************)
(* createPlotSummary's request returns or fails (the failure is caught and *)
(* a placeholder used); style and key quotes follow synchronously, then    *)
(* the narrative structure request is issued.                              *)
(***************************************************************************)
PlotReply(r) ==
    /\ r \in DOMAIN runs
    /\ runs[r].pc = "plot"
    /\ runs' = [runs EXCEPT ![r].pc = "struct"]
    /\ lastResult' = [op |-> "none"]
    /\ UNCHANGED <<bookAnalysesMap, heap, cache>>
    /\ UNCHANGED <<streamVars, fnVars>>

(***************************************************************************)
(* determineNarrativeStructure's request returns or fails (the failure is  *)
(* caught and a sentinel used); synthesizeBookAnalysis returns and         *)
(* analyzeBook completes.  The global analysis is modelled by the run that *)
(* synthesized it and the chunk analyses it aggregated.                    *)
(***************************************************************************)
SynthesizedGlobal(r, run) == [run |-> r, from |-> run.agg]

StructReply(r, writeOk) ==
    /\ r \in DOMAIN runs
    /\ runs[r].pc = "struct"
    /\ LET run == runs[r]
           done == MarkCompleted(heap[run.obj], SynthesizedGlobal(r, run), Now(r))
       IN /\ heap' = [heap EXCEPT ![run.obj] = done]
          /\ cache' = saveAnalysisToCache(cache, run.bookId, done, writeOk)
          /\ runs' = [runs EXCEPT ![r] = [run EXCEPT !.pc = "done", !.analyses = <<>>,
                                                    !.progress = <<>>, !.agg = <<>>]]
    /\ lastResult' = [op |-> "none"]
    /\ UNCHANGED bookAnalysesMap
    /\ UNCHANGED <<streamVars, fnVars>>

(***************************************************************************)
(* A caller reads the results.                                             *)
(***************************************************************************)
GetResults(bookId) ==
    /\ lastResult' = [op |-> "results", bookId |-> bookId,
                      result |-> getAnalysisResults(bookId)]
    /\ UNCHANGED <<bookAnalysesMap, heap, cache, runs>>
    /\ UNCHANGED <<streamVars, fnVars>>

NextBook ==
    \/ \E b \in BookIds, force \in BOOLEAN : loadAndProcessBook(b, force)
    \/ \E b \in BookIds, force \in BOOLEAN : PostAnalyze(b, force)
    \/ \E b \in BookIds, force \in BOOLEAN : AnalyzeBookCall(b, force)
    \/ \E r \in 1..MaxRuns, outcome \in ChunkOutcomes : ChunkReply(r, outcome)
    \/ \E r \in 1..MaxRuns : PlotReply(r)
    \/ \E r \in 1..MaxRuns, writeOk \in BOOLEAN : StructReply(r, writeOk)
    \/ \E b \in BookIds : GetResults(b)

(***************************************************************************)
(* POST /api/rewrite-stream                                                *)
(*                                                                         *)
(* Bytes are symbols.  A frame of the backend is                           *)
(*     {  "response  ":"  <fragment>  }  \n                                *)
(* written "{", "r1", "r2", the fragment's symbols, "}", "\n": the key     *)
(* "response" is two symbols so that a transport chunk can end inside it.  *)
(* A fragment is text and reasoning markers: "O" is <think>, "C" is        *)
(* </think>; "v" and "h" are two characters of text (the handler treats    *)
(* them alike).                                                            *)
(***************************************************************************)
FragSyms == {"v", "h", "O", "C"}

SeqsUpTo(S, n) == UNION {[1..k -> S] : k \in 0..n}

Fragments == SeqsUpTo(FragSyms, MaxFragLen)

Frame(frag) == <<"{", "r1", "r2">> \o frag \o <<"}", "\n">>

\* String.prototype.indexOf for a one-symbol needle, from position `from`
\* (1-based); 0 when absent
IndexOf(s, sym, from) ==
    IF \E k \in from..Len(s) : s[k] = sym
    THEN CHOOSE k \in from..Len(s) : s[k] = sym /\ \A j \in from..(k - 1) : s[j] # sym
    ELSE 0

\* buffer.indexOf('}\n', startIndex), 1-based position of the brace; 0 when absent
IndexOfFrameEnd(s, from) ==
    IF \E k \in from..(Len(s) - 1) : s[k] = "}" /\ s[k + 1] = "\n"
    THEN CHOOSE k \in from..(Len(s) - 1) :
             /\ s[k] = "}" /\ s[k + 1] = "\n"
             /\ \A j \in from..(k - 1) : ~(s[j] = "}" /\ s[j + 1] = "\n")
    ELSE 0

Includes(s, sym) == \E k \in DOMAIN s : s[k] = sym

\* s.split(sym)[0]
SplitFirst(s, sym) ==
    IF Includes(s, sym) THEN SubSeq(s, 1, IndexOf(s, sym, 1) - 1) ELSE s

\* s.split(sym)[1] || '' for an s that includes sym: what lies between the
\* first and the second occurrence (or the end)
SplitSecond(s, sym) ==
    LET p == IndexOf(s, sym, 1)
        q == IndexOf(s, sym, p + 1)
    IN IF q = 0 THEN SubSeq(s, p + 1, Len(s)) ELSE SubSeq(s, p + 1, q - 1)

\* s.trim() is not empty
NonBlank(s) == \E k \in DOMAIN s : s[k] # "\n"

\* s.includes('"response"')
IncludesResponseKey(s) == \E k \in 1..(Len(s) - 1) : s[k] = "r1" /\ s[k + 1] = "r2"

\* JSON.parse succeeds on exactly one well-formed frame object
IsFrameObject(s) ==
    /\ Len(s) >= 4
    /\ s[1] = "{" /\ s[2] = "r1" /\ s[3] = "r2" /\ s[Len(s)] = "}"
    /\ \A k \in 4..(Len(s) - 1) : s[k] \in FragSyms

\* data.response of a parsed frame object
ResponseOf(s) == SubSeq(s, 4, Len(s) - 1)

\* "Check for thinking tags and filter content in real-time": the flag and the
\* text left of a token (or of a raw transport chunk in the fallback)
FilterThinking(inside, text) ==
    LET in1  == IF Includes(text, "O") THEN TRUE ELSE inside
        t1   == IF Includes(text, "O") THEN SplitFirst(text, "O") ELSE text
        in2  == IF Includes(t1, "C") THEN FALSE ELSE in1
        t2   == IF Includes(t1, "C") THEN SplitSecond(t1, "C") ELSE t1
    IN [inside |-> in2, text |-> t2]

\* one parsed frame: st is [inside, tokens]
OnFrame(st, response) ==
    IF response = <<>> THEN st
    ELSE LET f == FilterThinking(st.inside, response) IN
         [inside |-> f.inside,
          tokens |-> IF ~f.inside /\ f.text # <<>> THEN Append(st.tokens, f.text)
                     ELSE st.tokens]

\* the while loop over the complete objects of the buffer, from startIndex
RECURSIVE ExtractObjects(_, _, _)
ExtractObjects(buf, startIndex, st) ==
    LET endIndex == IndexOfFrameEnd(buf, startIndex) IN
    IF endIndex = 0
    THEN [rest |-> SubSeq(buf, startIndex, Len(buf)), inside |-> st.inside,
          tokens |-> st.tokens, found |-> st.found]
    ELSE LET jsonStr == SubSeq(buf, startIndex, endIndex) IN
         IF IsFrameObject(jsonStr)
         THEN LET f == OnFrame([inside |-> st.inside, tokens |-> st.tokens],
                               ResponseOf(jsonStr))
              IN ExtractObjects(buf, endIndex + 2,
                                [inside |-> f.inside, tokens |-> f.tokens, found |-> TRUE])
         ELSE ExtractObjects(buf, endIndex + 2, st)

\* "Fallback: If no JSON objects were found, try to extract plain text content"
UsesFallback(found, chunkStr) ==
    ~found /\ NonBlank(chunkStr) /\ ~IncludesResponseKey(chunkStr)

Fallback(st, chunkStr) ==
    LET f == FilterThinking(st.inside, chunkStr) IN
    [inside |-> f.inside,
     tokens |-> IF ~f.inside /\ NonBlank(f.text) THEN Append(st.tokens, f.text)
                ELSE st.tokens]

\* response.data.on('data', ...): the new buffer, the new flag, the token
\* texts written, in order
DataHandler(buf, inside, chunkStr) ==
    LET ex == ExtractObjects(buf \o chunkStr, 1,
                             [inside |-> inside, tokens |-> <<>>, found |-> FALSE])
        fb == IF UsesFallback(ex.found, chunkStr)
              THEN Fallback([inside |-> ex.inside, tokens |-> ex.tokens], chunkStr)
              ELSE [inside |-> ex.inside, tokens |-> ex.tokens]
    IN [buffer |-> ex.rest, inside |-> fb.inside, tokens |-> fb.tokens]

\* events written to res
ChunkStart(i) == [type |-> "chunk_start", index |-> i, text |-> <<>>]
Token(i, text) == [type |-> "token", index |-> i, text |-> text]
Separator(i) == [type |-> "token", index |-> i, text |-> <<"\n", "\n">>]
ErrorEvent(i) == [type |-> "error", index |-> i, text |-> <<>>]
\* res.end()
EndOfResponse == [type |-> "end", index |-> -1, text |-> <<>>]

TokenEvents(i, texts) == [k \in DOMAIN texts |-> Token(i, texts[k])]

InitStream ==
    /\ total = 0
    /\ index = 0
    /\ pc = "idle"
    /\ insideThinkingBlock = FALSE
    /\ buffer = <<>>
    /\ out = <<>>
    /\ wire = <<>>
    /\ backendOpen = FALSE
    /\ sent = <<>>
    /\ cutInFrame = FALSE
    /\ framesLeft = MaxFrames
    /\ cutsLeft = MaxCuts
    /\ disconnected = FALSE

\* the head of a loop iteration up to `await axios.post`: chunk_start is
\* written and the request for chunk i issued
BeginChunk(i, written) ==
    /\ index' = i
    /\ out' = Append(written, ChunkStart(i))
    /\ pc' = "posting"

\* the request arrives with a structure of n chunks; an empty structure is
\* answered 400 before anything is streamed
RewriteStream(n) ==
    /\ UNCHANGED <<bookVars, fnVars, disconnected>>
    /\ pc = "idle"
    /\ total' = n
    /\ IF n = 0
       THEN /\ pc' = "rejected"
            /\ UNCHANGED <<index, out>>
       ELSE BeginChunk(0, out)
    /\ UNCHANGED <<insideThinkingBlock, buffer, wire, backendOpen, sent, cutInFrame,
                   framesLeft, cutsLeft>>

\* a catch block that writes the error event and never ends the response
CatchError_NoEnd(i) ==
    /\ out' = Append(out, ErrorEvent(i))
    /\ pc' = "closed"

\* the catch block once something was written: an error event, then res.end()
CatchError(i) ==
    /\ out' = out \o <<ErrorEvent(i), EndOfResponse>>
    /\ pc' = "closed"

\* axios.post resolves with the response stream; the handlers are attached
PostResolves ==
    /\ UNCHANGED <<bookVars, fnVars, disconnected>>
    /\ pc = "posting"
    /\ pc' = "streaming"
    /\ backendOpen' = TRUE
    /\ wire' = <<>>
    /\ sent' = <<>>
    /\ cutInFrame' = FALSE
    /\ UNCHANGED <<total, index, insideThinkingBlock, buffer, out, framesLeft, cutsLeft>>

\* axios.post rejects (backend down, non-2xx)
PostRejects ==
    /\ UNCHANGED <<bookVars, fnVars, disconnected>>
    /\ pc = "posting"
    /\ CatchError(index)
    /\ UNCHANGED <<total, index, insideThinkingBlock, buffer, wire, backendOpen, sent,
                   cutInFrame, framesLeft, cutsLeft>>

\* the backend sends one more frame
BackendSends(frag) ==
    /\ UNCHANGED <<bookVars, fnVars, disconnected>>
    /\ pc = "streaming"
    /\ backendOpen
    /\ framesLeft > 0
    /\ framesLeft' = framesLeft - 1
    /\ wire' = wire \o Frame(frag)
    /\ sent' = Append(sent, frag)
    /\ UNCHANGED <<total, index, pc, insideThinkingBlock, buffer, out, backendOpen,
                   cutInFrame, cutsLeft>>

\* the backend closes the stream after its last frame
BackendCloses ==
    /\ UNCHANGED <<bookVars, fnVars, disconnected>>
    /\ pc = "streaming"
    /\ backendOpen
    /\ backendOpen' = FALSE
    /\ UNCHANGED <<total, index, pc, insideThinkingBlock, buffer, out, wire, sent,
                   cutInFrame, framesLeft, cutsLeft>>

\* a transport chunk of the first k undelivered bytes reaches the data handler
Data(k) ==
    /\ UNCHANGED <<bookVars, fnVars, disconnected>>
    /\ pc = "streaming"
    /\ k \in 1..Len(wire)
    /\ LET chunkStr == SubSeq(wire, 1, k)
           h == DataHandler(buffer, insideThinkingBlock, chunkStr)
           cut == IF chunkStr[k] = "\n" THEN 0 ELSE 1
       IN /\ cut <= cutsLeft
          /\ cutsLeft' = cutsLeft - cut
          /\ cutInFrame' = (cutInFrame \/ cut = 1)
          /\ buffer' = h.buffer
          /\ insideThinkingBlock' = h.inside
          /\ out' = out \o TokenEvents(index, h.tokens)
    /\ wire' = SubSeq(wire, k + 1, Len(wire))
    /\ UNCHANGED <<total, index, pc, backendOpen, sent, framesLeft>>

\* a loop that goes on to the next chunk without waiting for 'end'
End_NoWait ==
    /\ UNCHANGED <<bookVars, fnVars, disconnected>>
    /\ pc = "streaming"
    /\ insideThinkingBlock' = FALSE
    /\ IF index + 1 < total
       THEN BeginChunk(index + 1, Append(out, Separator(index)))
       ELSE /\ out' = out \o <<Separator(index), EndOfResponse>>
            /\ pc' = "closed"
            /\ UNCHANGED index
    /\ UNCHANGED <<total, buffer, wire, backendOpen, sent, cutInFrame, framesLeft,
                   cutsLeft>>

\* 'end' of the response stream: the promise resolves, the flag is reset, the
\* separator written, and the loop goes on to the next chunk or to res.end()
End ==
    /\ UNCHANGED <<bookVars, fnVars, disconnected>>
    /\ pc = "streaming"
    /\ ~backendOpen
    /\ wire = <<>>
    /\ insideThinkingBlock' = FALSE
    /\ IF index + 1 < total
       THEN BeginChunk(index + 1, Append(out, Separator(index)))
       ELSE /\ out' = out \o <<Separator(index), EndOfResponse>>
            /\ pc' = "closed"
            /\ UNCHANGED index
    /\ UNCHANGED <<total, buffer, wire, backendOpen, sent, cutInFrame, framesLeft,
                   cutsLeft>>

\* 'error' of the response stream: the promise rejects
StreamError ==
    /\ UNCHANGED <<bookVars, fnVars, disconnected>>
    /\ pc = "streaming"
    /\ CatchError(index)
    /\ UNCHANGED <<total, index, insideThinkingBlock, buffer, wire, backendOpen, sent,
                   cutInFrame, framesLeft, cutsLeft>>

\* the caller closes the connection while the request is in flight; the
\* handler registers no 'close' listener, so nothing else changes
Disconnect ==
    /\ pc \in {"posting", "streaming"}
    /\ ~disconnected
    /\ disconnected' = TRUE
    /\ UNCHANGED <<bookVars, fnVars>>
    /\ UNCHANGED <<total, index, pc, insideThinkingBlock, buffer, out, wire,
                   backendOpen, sent, cutInFrame, framesLeft, cutsLeft>>

NextStream ==
    \/ \E n \in 0..MaxDocChunks : RewriteStream(n)
    \/ PostResolves
    \/ PostRejects
    \/ \E frag \in Fragments : BackendSends(frag)
    \/ BackendCloses
    \/ \E k \in 1..(MaxFrames * (MaxFragLen + 5)) : Data(k)
    \/ End
    \/ StreamError

\* the backend ends the stream inside a frame: the first k bytes of the
\* frame are sent, the last line break at least is missing
BackendBreaksOff(frag, k) ==
    /\ UNCHANGED <<bookVars, fnVars, disconnected>>
    /\ pc = "streaming"
    /\ backendOpen
    /\ framesLeft > 0
    /\ k \in 1..(Len(Frame(frag)) - 1)
    /\ framesLeft' = framesLeft - 1
    /\ wire' = wire \o SubSeq(Frame(frag), 1, k)
    /\ backendOpen' = FALSE
    /\ UNCHANGED <<total, index, pc, insideThinkingBlock, buffer, out, sent,
                   cutInFrame, cutsLeft>>

\* the streaming rewrite with a backend whose stream may end inside a frame
NextBrokenStream ==
    \/ \E n \in 0..MaxDocChunks : RewriteStream(n)
    \/ PostResolves
    \/ PostRejects
    \/ \E frag \in Fragments : BackendSends(frag)
    \/ \E frag \in Fragments, k \in 1..(MaxFragLen + 4) : BackendBreaksOff(frag, k)
    \/ BackendCloses
    \/ \E k \in 1..(MaxFrames * (MaxFragLen + 5)) : Data(k)
    \/ End
    \/ StreamError

\* the streaming rewrite with a caller that may go away
NextDisconnect ==
    \/ \E n \in 0..MaxDocChunks : RewriteStream(n)
    \/ PostResolves
    \/ PostRejects
    \/ \E frag \in Fragments : BackendSends(frag)
    \/ BackendCloses
    \/ \E k \in 1..(MaxFrames * (MaxFragLen + 5)) : Data(k)
    \/ End
    \/ StreamError
    \/ Disconnect

(***************************************************************************)
(* The functions checked on their own, at rest.                            *)
(***************************************************************************)
\* chunkText was not called
NotRun == <<[id |-> -1]>>

\* no backend reply under consideration
IdleStrip ==
    /\ reply = <<>>
    /\ shown = [kind |-> "none"]

\* no quotes collected
IdleQuotes ==
    /\ collected = [kind |-> "none"]
    /\ selected = NotRun

\* no chunk under analysis
IdleParse ==
    /\ modelReply = [kind |-> "none"]
    /\ parsedAnalysis = [kind |-> "none"]

\* no document in the viewer
IdleViewer == viewer = [kind |-> "none"]

IdleRest == IdleQuotes /\ IdleParse /\ IdleViewer

\* no run followed in detail
IdleSynth ==
    /\ bookAnalysis = [status |-> "none"]
    /\ synthesis = [pc |-> "none"]

\* no text under consideration
IdleChunk ==
    /\ chunkInput = [text |-> <<>>, maxTokens |-> 1000, minTokens |-> 100]
    /\ chunkOutput = NotRun

(***************************************************************************)
(* The non-streaming reasoning strip and the places a backend reply is     *)
(* turned into a user-visible value.                                       *)
(*                                                                         *)
(* A reply is a string over a few characters.  The marker <think> is the   *)
(* two symbols "o1","o2" and </think> the two symbols "c1","c2", so that a *)
(* reply can hold half a marker; "x" is a letter, "\n" white space (the   *)
(* regular expression's [\s\S] takes either), "{" and "}" the braces the   *)
(* JSON extraction looks for.                                              *)
(***************************************************************************)
OpenTag == <<"o1", "o2">>
CloseTag == <<"c1", "c2">>

Pieces == {OpenTag, CloseTag, <<"o1">>, <<"o2">>, <<"x">>, <<"\n">>, <<"{", "}">>}

RECURSIVE Flatten(_)
Flatten(ps) == IF ps = <<>> THEN <<>> ELSE Head(ps) \o Flatten(Tail(ps))

Replies == {Flatten(ps) : ps \in SeqsUpTo(Pieces, MaxPieces)}

\* the two-symbol marker `tag` stands at position k of s
MatchAt(s, tag, k) == k + 1 <= Len(s) /\ s[k] = tag[1] /\ s[k + 1] = tag[2]

\* first position >= from where `tag` stands, 0 when there is none
FindTag(s, tag, from) ==
    IF \E k \in from..Len(s) : MatchAt(s, tag, k)
    THEN CHOOSE k \in from..Len(s) :
             MatchAt(s, tag, k) /\ \A j \in from..(k - 1) : ~MatchAt(s, tag, j)
    ELSE 0

\* s.replace(/<think>[\s\S]*?<\/think>/g, '') from position `from` on: the
\* leftmost open marker with a close marker after it, up to the nearest such
\* close marker, is dropped and the scan goes on behind it
RECURSIVE ReplaceSpans(_, _)
ReplaceSpans(s, from) ==
    LET p == FindTag(s, OpenTag, from)
        q == IF p = 0 THEN 0 ELSE FindTag(s, CloseTag, p + 2)
    IN IF p = 0 \/ q = 0 THEN SubSeq(s, from, Len(s))
       ELSE SubSeq(s, from, p - 1) \o ReplaceSpans(s, q + 2)

IsSpace(c) == c \in {" ", "\n"}

\* String.prototype.trim
Trim(s) ==
    IF \A k \in DOMAIN s : IsSpace(s[k]) THEN <<>>
    ELSE LET a == CHOOSE k \in DOMAIN s : ~IsSpace(s[k]) /\ \A j \in 1..(k - 1) : IsSpace(s[j])
             b == CHOOSE k \in DOMAIN s : ~IsSpace(s[k]) /\ \A j \in (k + 1)..Len(s) : IsSpace(s[j])
         IN SubSeq(s, a, b)

\* analysisService.removeThinkingContent
removeThinkingContent(text) ==
    IF text = <<>> THEN text ELSE ReplaceSpans(text, 1)

\* server.extractFinalAnswer
extractFinalAnswer(text) == Trim(ReplaceSpans(text, 1))

\* rawResponse.match(/\{[\s\S]*\}/): from the first "{" to the last "}"; <<>>
\* when there is no match (the fenced forms need a back-tick, which no reply
\* here holds)
JsonMatch(s) ==
    IF \E i, j \in DOMAIN s : i < j /\ s[i] = "{" /\ s[j] = "}"
    THEN LET i == CHOOSE k \in DOMAIN s : s[k] = "{" /\ \A j \in 1..(k - 1) : s[j] # "{"
             j == CHOOSE k \in DOMAIN s : s[k] = "}" /\ \A l \in (k + 1)..Len(s) : s[l] # "}"
         IN SubSeq(s, i, j)
    ELSE <<>>

\* JSON.parse accepts, of the strings over these characters, the empty object
JsonParses(s) ==
    /\ Len(s) >= 2
    /\ s[1] = "{" /\ s[Len(s)] = "}"
    /\ \A k \in 2..(Len(s) - 1) : IsSpace(s[k])

\* determineNarrativeStructure: the structure made of the reply
StructureOf(response) ==
    LET rawResponse == Trim(response)
        jsonMatch == JsonMatch(rawResponse)
    IN IF jsonMatch # <<>>
       THEN IF JsonParses(jsonMatch)
            THEN [kind |-> "structure", type |-> "null", text |-> <<>>]
            ELSE [kind |-> "structure", type |-> "Unable to determine", text |-> <<>>]
       ELSE [kind |-> "structure", type |-> "Unknown", text |-> rawResponse]

\* a reply of the backend arrives, to be used by one of the actions below
InitStrip ==
    /\ InitBook
    /\ InitStream
    /\ IdleChunk
    /\ IdleSynth
    /\ IdleRest
    /\ reply \in Replies
    /\ shown = [kind |-> "none"]

\* POST /api/chat: res.json({answer})
Chat ==
    /\ shown.kind = "none"
    /\ shown' = [kind |-> "answer", text |-> extractFinalAnswer(reply)]
    /\ UNCHANGED <<reply, notStrip>>

\* POST /api/rewrite of server.js: rewritten.text
Rewrite ==
    /\ shown.kind = "none"
    /\ shown' = [kind |-> "rewritten", text |-> extractFinalAnswer(reply)]
    /\ UNCHANGED <<reply, notStrip>>

\* POST /api/rewrite of the other copy of the server: rewritten.text
RewriteUnstripped ==
    /\ shown.kind = "none"
    /\ shown' = [kind |-> "rewritten", text |-> reply]
    /\ UNCHANGED <<reply, notStrip>>

\* analyzeChunk: analysis.rawLlmOutput
AnalyzeChunkRaw ==
    /\ shown.kind = "none"
    /\ shown' = [kind |-> "rawLlmOutput", text |-> removeThinkingContent(reply)]
    /\ UNCHANGED <<reply, notStrip>>

\* createPlotSummary: globalAnalysis.plotSummary
PlotSummary ==
    /\ shown.kind = "none"
    /\ shown' = [kind |-> "plotSummary", text |-> Trim(reply)]
    /\ UNCHANGED <<reply, notStrip>>

\* determineNarrativeStructure: globalAnalysis.structure
NarrativeStructure ==
    /\ shown.kind = "none"
    /\ shown' = StructureOf(reply)
    /\ UNCHANGED <<reply, notStrip>>

NextStrip ==
    \/ Chat
    \/ Rewrite
    \/ RewriteUnstripped
    \/ AnalyzeChunkRaw
    \/ PlotSummary
    \/ NarrativeStructure

(***************************************************************************)
(* textProcessor.chunkText                                                 *)
(*                                                                         *)
(* A text is a string of characters: "a" a letter, "." a sentence end,     *)
(* " " and "\n" white space, and the characters of the page markers        *)
(* "Page 1" and "Page 2".  Offsets into the text count from 0 as in the    *)
(* code.  A content value carries, next to its text, the offsets `first`   *)
(* and `last` of the stretch of the input it was taken from; the code does *)
(* not keep them, they serve to state where a chunk lies in the text.      *)
(***************************************************************************)
\* startPage / endPage = null
NoPage == 0

Letters4 == <<"a", "a", "a", "a">>
PageMarker(n) == <<"P", "a", "g", "e", " ", n>>
PageDigits == {"1", "2"}
PageNumber(d) == IF d = "1" THEN 1 ELSE 2

ParaSet == { <<>>, Letters4, Letters4 \o <<".">>, Letters4 \o <<".">> \o Letters4,
             Letters4 \o <<".">> \o Letters4 \o <<".">>,
             PageMarker("1"), PageMarker("2") }

RECURSIVE JoinParas(_)
JoinParas(ps) ==
    IF ps = <<>> THEN <<>>
    ELSE IF Len(ps) = 1 THEN ps[1]
    ELSE ps[1] \o <<"\n", "\n">> \o JoinParas(Tail(ps))

Texts == {JoinParas(ps) : ps \in SeqsUpTo(ParaSet, MaxParas)}

MaxTokensChoices == {2, 3, 1000}
MinTokensChoices == {0, 2, 100}

\* Math.ceil(text.length / 4)
estimateTokenCount(t) == (Len(t) + 3) \div 4

\* text.split(/\n\s*\n/) from index `from` (1-based) on: the pieces, each with
\* the 0-based offset of its first character
RECURSIVE SplitParagraphs(_, _)
SplitParagraphs(t, from) ==
    LET IsSep(i, j) == /\ i < j /\ t[i] = "\n" /\ t[j] = "\n"
                       /\ \A m \in i..j : IsSpace(t[m])
        starts == {i \in from..Len(t) : \E j \in (i + 1)..Len(t) : IsSep(i, j)}
    IN IF starts = {}
       THEN << [text |-> SubSeq(t, from, Len(t)), first |-> from - 1] >>
       ELSE LET i == CHOOSE k \in starts : \A m \in starts : k <= m
                j == CHOOSE k \in (i + 1)..Len(t) :
                         IsSep(i, k) /\ \A m \in (k + 1)..Len(t) : ~IsSep(i, m)
            IN << [text |-> SubSeq(t, from, i - 1), first |-> from - 1] >>
               \o SplitParagraphs(t, j + 1)

\* paragraphs[i].trim(), as a content value
TrimmedParagraph(par) ==
    LET lead == Cardinality({k \in DOMAIN par.text : \A m \in 1..k : IsSpace(par.text[m])})
        body == Trim(par.text)
    IN [text |-> body, first |-> par.first + lead, last |-> par.first + lead + Len(body)]

EmptyContent == [text |-> <<>>, first |-> 0, last |-> 0]

\* a += (a ? sep : '') + b
AppendContent(a, sep, b) ==
    IF a.text = <<>> THEN b
    ELSE [text |-> a.text \o sep \o b.text, first |-> a.first, last |-> b.last]

\* paragraph.match(/[^.!?]+[.!?]+/g) from index `from` of the paragraph on: a
\* run of other characters followed by a run of sentence ends
RECURSIVE MatchSentences(_, _)
MatchSentences(par, from) ==
    LET t == par.text
        begins == {i \in from..Len(t) : t[i] # "."}
    IN IF begins = {} THEN <<>>
       ELSE LET i == CHOOSE k \in begins : \A m \in begins : k <= m
                dots == {k \in (i + 1)..Len(t) : t[k] = "."}
            IN IF dots = {} THEN <<>>
               ELSE LET d == CHOOSE k \in dots : \A m \in dots : k <= m
                        e == CHOOSE k \in d..Len(t) :
                                 /\ \A m \in d..k : t[m] = "."
                                 /\ (k = Len(t) \/ t[k + 1] # ".")
                    IN << [text |-> SubSeq(t, i, e), first |-> par.first + i - 1,
                           last |-> par.first + e] >>
                       \o MatchSentences(par, e + 1)

\* paragraph.match(...) || [paragraph]
Sentences(par) ==
    IF MatchSentences(par, 1) = <<>> THEN <<par>> ELSE MatchSentences(par, 1)

\* the page marker "Page d" stands at index k (1-based) of t
MarkerAt(t, k) ==
    /\ k + 5 <= Len(t)
    /\ SubSeq(t, k, k + 4) = <<"P", "a", "g", "e", " ">>
    /\ t[k + 5] \in PageDigits

\* extractPageMarkers: position (0-based) and page number, in text order
RECURSIVE MarkersFrom(_, _)
MarkersFrom(t, k) ==
    IF k > Len(t) THEN <<>>
    ELSE IF MarkerAt(t, k)
    THEN << [position |-> k - 1, pageNumber |-> PageNumber(t[k + 5])] >>
         \o MarkersFrom(t, k + 6)
    ELSE MarkersFrom(t, k + 1)

extractPageMarkers(t) == MarkersFrom(t, 1)

\* one loop of findPageBoundaries: the page of the last marker of the leading
\* run of markers whose position is <= pos
PageAt(pos, pageMarkers) ==
    LET run == {i \in DOMAIN pageMarkers : \A j \in 1..i : pageMarkers[j].position <= pos}
    IN IF run = {} THEN NoPage
       ELSE pageMarkers[CHOOSE i \in run : \A j \in run : j <= i].pageNumber

findPageBoundaries(startPos, endPos, pageMarkers) ==
    [startPage |-> PageAt(startPos, pageMarkers), endPage |-> PageAt(endPos, pageMarkers)]

\* createChunk(content, endPos) with the position of the moment: the chunks
\* after the call
createChunk(chunks, content, endPos, position, minTokens, pageMarkers) ==
    LET chunkTokens == estimateTokenCount(content.text) IN
    IF chunkTokens < minTokens /\ chunks # <<>>
    THEN LET previousChunk == chunks[Len(chunks)]
             merged == previousChunk.text \o <<"\n", "\n">> \o content.text
         IN [chunks EXCEPT ![Len(chunks)] =
                [previousChunk EXCEPT !.text = merged,
                                      !.tokenCount = estimateTokenCount(merged),
                                      !.last = content.last]]
    ELSE LET pages == findPageBoundaries(position, endPos, pageMarkers) IN
         Append(chunks, [ id         |-> Len(chunks),
                          text       |-> content.text,
                          position   |-> position,
                          tokenCount |-> chunkTokens,
                          pageStart  |-> pages.startPage,
                          pageEnd    |-> pages.endPage,
                          first      |-> content.first,
                          last       |-> content.last ])

\* the loop over the sentences of an oversized paragraph, from sentence k on;
\* st is [chunks, position, sentenceChunk]
RECURSIVE SentenceLoop(_, _, _, _, _, _)
SentenceLoop(sentences, k, st, maxTokens, minTokens, pageMarkers) ==
    IF k > Len(sentences) THEN st
    ELSE LET sentence == sentences[k]
             sentenceTokens == estimateTokenCount(sentence.text)
             sentenceChunkTokens == estimateTokenCount(st.sentenceChunk.text)
         IN SentenceLoop(sentences, k + 1,
                IF st.sentenceChunk.text # <<>> /\ sentenceChunkTokens + sentenceTokens > maxTokens
                THEN [ chunks |-> createChunk(st.chunks, st.sentenceChunk, st.position,
                                              st.position, minTokens, pageMarkers),
                       position |-> st.position + sentenceChunkTokens,
                       sentenceChunk |-> sentence ]
                ELSE [ chunks |-> st.chunks,
                       position |-> st.position,
                       sentenceChunk |-> AppendContent(st.sentenceChunk, <<" ">>, sentence) ],
                maxTokens, minTokens, pageMarkers)

\* the branch "this single paragraph exceeds maxTokens"; st is
\* [chunks, currentChunk, position]
SplitLargeParagraph(st, paragraph, maxTokens, minTokens, pageMarkers) ==
    LET currentChunkTokens == estimateTokenCount(st.currentChunk.text)
        flushed == IF st.currentChunk.text # <<>>
                   THEN [ chunks |-> createChunk(st.chunks, st.currentChunk, st.position,
                                                 st.position, minTokens, pageMarkers),
                          position |-> st.position + currentChunkTokens ]
                   ELSE [ chunks |-> st.chunks, position |-> st.position ]
        looped == SentenceLoop(Sentences(paragraph), 1,
                               [ chunks |-> flushed.chunks, position |-> flushed.position,
                                 sentenceChunk |-> EmptyContent ],
                               maxTokens, minTokens, pageMarkers)
    IN IF looped.sentenceChunk.text # <<>>
       THEN [ chunks |-> createChunk(looped.chunks, looped.sentenceChunk, looped.position,
                                     looped.position, minTokens, pageMarkers),
              currentChunk |-> EmptyContent,
              position |-> looped.position + estimateTokenCount(looped.sentenceChunk.text) ]
       ELSE [ chunks |-> looped.chunks, currentChunk |-> EmptyContent,
              position |-> looped.position ]

\* one iteration of "Process paragraphs"
ProcessParagraph(st, par, maxTokens, minTokens, pageMarkers) ==
    LET paragraph == TrimmedParagraph(par)
        paragraphTokens == estimateTokenCount(paragraph.text)
        currentChunkTokens == estimateTokenCount(st.currentChunk.text)
    IN IF paragraph.text = <<>> THEN st
       ELSE IF st.currentChunk.text # <<>> /\ currentChunkTokens + paragraphTokens > maxTokens
       THEN [ chunks |-> createChunk(st.chunks, st.currentChunk, st.position, st.position,
                                     minTokens, pageMarkers),
              currentChunk |-> paragraph,
              position |-> st.position + currentChunkTokens ]
       ELSE IF paragraphTokens > maxTokens
       THEN SplitLargeParagraph(st, paragraph, maxTokens, minTokens, pageMarkers)
       ELSE [ chunks |-> st.chunks,
              currentChunk |-> AppendContent(st.currentChunk, <<"\n", "\n">>, paragraph),
              position |-> st.position ]

RECURSIVE ParagraphLoop(_, _, _, _, _, _)
ParagraphLoop(paragraphs, i, st, maxTokens, minTokens, pageMarkers) ==
    IF i > Len(paragraphs) THEN st
    ELSE ParagraphLoop(paragraphs, i + 1,
                       ProcessParagraph(st, paragraphs[i], maxTokens, minTokens, pageMarkers),
                       maxTokens, minTokens, pageMarkers)

chunkText(t, maxTokens, minTokens) ==
    LET pageMarkers == extractPageMarkers(t)
        st == ParagraphLoop(SplitParagraphs(t, 1), 1,
                            [chunks |-> <<>>, currentChunk |-> EmptyContent, position |-> 0],
                            maxTokens, minTokens, pageMarkers)
    IN IF st.currentChunk.text # <<>>
       THEN createChunk(st.chunks, st.currentChunk, st.position, st.position,
                        minTokens, pageMarkers)
       ELSE st.chunks

InitChunk ==
    /\ InitBook
    /\ InitStream
    /\ IdleStrip
    /\ IdleSynth
    /\ IdleRest
    /\ chunkInput \in [text : Texts, maxTokens : MaxTokensChoices, minTokens : MinTokensChoices]
    /\ chunkOutput = NotRun

ChunkText ==
    /\ chunkOutput = NotRun
    /\ chunkOutput' = chunkText(chunkInput.text, chunkInput.maxTokens, chunkInput.minTokens)
    /\ UNCHANGED <<chunkInput, notChunk>>

NextChunk == ChunkText

(***************************************************************************)
(* synthesisService: the synthesizer on concrete chunk analyses.           *)
(* Strings are sequences of symbols.                                       *)
(***************************************************************************)
\* chunk.metadata.pageStart of chunk k; the first chunk precedes every page
\* marker (pageStart null)
PageStartOf(k) == IF k = 1 THEN NoPage ELSE k - 1

\* character mentions a chunk analysis may hold: "J D", "j, d", "j , d" and
\* a mention without a name
CharacterChoices ==
    { [name |-> <<"J", " ", "D">>, description |-> <<"x">>, role |-> <<"r">>],
      [name |-> <<"j", ",", " ", "d">>, description |-> <<"y">>, role |-> <<"r">>],
      [name |-> <<"j", " ", ",", " ", "d">>, description |-> <<"x">>, role |-> <<"q">>],
      [name |-> <<>>, description |-> <<"x">>, role |-> <<>>] }

\* the theme, setting, event, quote and tone chunk k's analysis may hold
ThemeOf(k) ==
    IF k = 1 THEN [name |-> <<"T">>, description |-> <<"x">>]
    ELSE [name |-> <<"t", " ">>, description |-> <<"y">>]

SettingOf(k) ==
    IF k = 1 THEN [location |-> <<"L">>, description |-> <<"x">>]
    ELSE [location |-> <<" ", "l">>, description |-> <<>>]

EventOf(k) ==
    [description |-> <<"e">>, importance |-> IF k = 1 THEN "" ELSE "major"]

\* an event the model named without describing it
Undescribed == [description |-> <<>>, importance |-> "major"]

QuoteOf(k) == [quote |-> <<"q">>, explanation |-> <<"x">>]

\* style.tone null (falsy, like the empty string)
NoTone == <<>>

\* new ChunkAnalysis(chunk.id) with the fields the parsed JSON fills in;
\* `bad` says that parsed.characters was not a list
ChunkAnalysisOf(k, characters, withRest, bad) ==
    [ chunkId    |-> k,
      run        |-> 1,
      bad        |-> bad,
      characters |-> characters,
      themes     |-> IF withRest THEN <<ThemeOf(k)>> ELSE <<>>,
      settings   |-> IF withRest THEN <<SettingOf(k)>> ELSE <<>>,
      events     |-> IF withRest THEN <<EventOf(k), Undescribed>> ELSE <<>>,
      keyQuotes  |-> IF withRest THEN <<QuoteOf(k)>> ELSE <<>>,
      tone       |-> IF withRest THEN <<"D">> ELSE NoTone ]

\* what analyzeChunk can return for chunk k
ChunkAnalyses(k) ==
    { ChunkAnalysisOf(k, cs, r, FALSE) :
          cs \in SeqsUpTo(CharacterChoices, MaxMentions), r \in BOOLEAN }
    \cup { ChunkAnalysisOf(k, <<>>, FALSE, TRUE) }

\* String.prototype.toLowerCase
LowerOf(c) ==
    CASE c = "J" -> "j" [] c = "D" -> "d" [] c = "T" -> "t" [] c = "L" -> "l"
      [] OTHER -> c

toLowerCase(s) == [k \in DOMAIN s |-> LowerOf(s[k])]

\* s.replace(/\s+/g, ' ')
CollapseWhitespace(s) ==
    LET kept == SelectSeq([k \in DOMAIN s |-> k],
                          LAMBDA k : ~IsSpace(s[k]) \/ k = 1 \/ ~IsSpace(s[k - 1]))
    IN [i \in DOMAIN kept |-> IF IsSpace(s[kept[i]]) THEN " " ELSE s[kept[i]]]

\* the characters of the class removed by the second replace (its backquote
\* is not a symbol of the names considered)
Punctuation ==
    {".", ",", "/", "#", "!", "$", "%", "^", "&", "*", ";", ":", "{", "}",
     "=", "-", "_", "~", "(", ")"}

RemovePunctuation(s) == SelectSeq(s, LAMBDA c : c \notin Punctuation)

normalizeCharacterName(name) ==
    Trim(RemovePunctuation(CollapseWhitespace(toLowerCase(name))))

\* theme.name.toLowerCase().trim() and setting.location.toLowerCase().trim()
normalizeEntityName(name) == Trim(toLowerCase(name))

\* String.prototype.includes
StringIncludes(s, needle) ==
    \E k \in 0..(Len(s) - Len(needle)) : SubSeq(s, k + 1, k + Len(needle)) = needle

\* Array.prototype.includes
ListIncludes(list, v) == \E k \in DOMAIN list : list[k] = v

\* position of `key` in a Map kept in insertion order, 0 when absent
KeyIndex(map, key) ==
    IF \E e \in DOMAIN map : map[e].key = key
    THEN CHOOSE e \in DOMAIN map : map[e].key = key
    ELSE 0

MapValues(map) == [e \in DOMAIN map |-> map[e].value]

\* existing.description += '. ' + description, under its three conditions
MergeDescription(existing, description) ==
    IF description # <<>> /\ description # existing /\ ~StringIncludes(existing, description)
    THEN existing \o <<".", " ">> \o description
    ELSE existing

\* existingChar.role += '; ' + character.role, under its three conditions
MergeRole(existing, role) ==
    IF role # <<>> /\ role # existing /\ ~StringIncludes(existing, role)
    THEN existing \o <<";", " ">> \o role
    ELSE existing

\* pages.push(pageStart) when there is a page and it is not yet listed
MergePages(pages, page) ==
    IF page # NoPage /\ ~ListIncludes(pages, page) THEN Append(pages, page) ELSE pages

FirstPages(page) == IF page # NoPage THEN <<page>> ELSE <<>>

\* (count || 1) + 1
CountAgain(count) == (IF count = 0 THEN 1 ELSE count) + 1

\* Array.prototype.sort with (a, b) => count(b) - count(a), counts[k] being
\* the count of entries[k]: stable, descending
StableSortDesc(entries, counts) ==
    LET Rank(k) == 1 + Cardinality({j \in DOMAIN entries :
                        \/ counts[j] > counts[k]
                        \/ counts[j] = counts[k] /\ j < k})
    IN [r \in DOMAIN entries |-> entries[CHOOSE k \in DOMAIN entries : Rank(k) = r]]

\* Array.prototype.slice(from, to) with 0-based bounds
Slice(list, from, to) ==
    SubSeq(list, from + 1, IF to < Len(list) THEN to ELSE Len(list))

\* Math.max(3, Math.ceil(n * 0.2))
mainCharacterCutoff(n) == IF (n + 4) \div 5 > 3 THEN (n + 4) \div 5 ELSE 3

\* the new character entry of the else branch
NewCharacter(character, page) ==
    [ name        |-> character.name,
      description |-> character.description,
      role        |-> character.role,
      appearances |-> 1,
      pages       |-> FirstPages(page) ]

\* the writes of the merge branch, applied to the entry held by the map
MergeCharacter(existingChar, character, page) ==
    [ name        |-> existingChar.name,
      description |-> MergeDescription(existingChar.description, character.description),
      role        |-> MergeRole(existingChar.role, character.role),
      appearances |-> CountAgain(existingChar.appearances),
      pages       |-> MergePages(existingChar.pages, page) ]

\* a merge that also writes the merged description into the mention read
StoreCharacter_IntoMention(st, c, j, e, merged) ==
    [st EXCEPT !.map[e].value = merged,
               !.chunks[c].characters[j].description = merged.description]

\* where the merge branch writes: the entry object of the map, which is an
\* object built by the else branch and never a mention of a chunk analysis
StoreCharacter(st, c, j, e, merged) ==
    [st EXCEPT !.map[e].value = merged]

\* the two branches of the forEach body, for a mention whose normalized name
\* is `key`
AddCharacterAs(st, c, j, key) ==
    LET character == st.chunks[c].characters[j]
        e == KeyIndex(st.map, key)
    IN IF e # 0
       THEN StoreCharacter(st, c, j, e,
                MergeCharacter(st.map[e].value, character, PageStartOf(c)))
       ELSE [st EXCEPT !.map = Append(@, [key |-> key,
                                         value |-> NewCharacter(character, PageStartOf(c))])]

\* the body of chunk.analysis.characters.forEach for mention j of chunk c;
\* st holds the chunks (as the heap has them) and the characterMap
AddCharacter(st, c, j) ==
    IF st.chunks[c].characters[j].name = <<>> THEN st
    ELSE AddCharacterAs(st, c, j, normalizeCharacterName(st.chunks[c].characters[j].name))

RECURSIVE CharactersFrom(_, _, _)
\* chunks.forEach(chunk => chunk.analysis.characters.forEach(...)) from
\* mention j of chunk c on; chunks without an analysis are skipped
CharactersFrom(st, c, j) ==
    IF c > Len(st.chunks) THEN st
    ELSE IF st.chunks[c].chunkId = 0 \/ j > Len(st.chunks[c].characters)
    THEN CharactersFrom(st, c + 1, 1)
    ELSE CharactersFrom(AddCharacter(st, c, j), c, j + 1)

\* the sorted characters, cut into main and supporting characters
CharacterLists(chunks, characters) ==
    [ chunks               |-> chunks,
      characters           |-> characters,
      mainCharacters       |-> Slice(characters, 0, mainCharacterCutoff(Len(characters))),
      supportingCharacters |-> Slice(characters, mainCharacterCutoff(Len(characters)),
                                     Len(characters)) ]

\* Array.from(characterMap.values()).sort(...)
SortedCharacters(st) ==
    CharacterLists(st.chunks,
                   StableSortDesc(MapValues(st.map),
                                  [e \in DOMAIN st.map |-> st.map[e].value.appearances]))

aggregateCharacters(chunks) ==
    SortedCharacters(CharactersFrom([chunks |-> chunks, map |-> <<>>], 1, 1))

\* the two branches of the forEach body of aggregateThemes
AddThemeAs(st, c, j, key) ==
    LET theme == st.chunks[c].themes[j]
        e == KeyIndex(st.map, key)
    IN IF e # 0
       THEN [st EXCEPT !.map[e].value =
                [ name        |-> @.name,
                  description |-> MergeDescription(@.description, theme.description),
                  occurrences |-> CountAgain(@.occurrences),
                  pages       |-> MergePages(@.pages, PageStartOf(c)) ]]
       ELSE [st EXCEPT !.map = Append(@, [key |-> key, value |->
                [ name        |-> theme.name,
                  description |-> theme.description,
                  occurrences |-> 1,
                  pages       |-> FirstPages(PageStartOf(c)) ]])]

\* the body of chunk.analysis.themes.forEach
AddTheme(st, c, j) ==
    IF st.chunks[c].themes[j].name = <<>> THEN st
    ELSE AddThemeAs(st, c, j, normalizeEntityName(st.chunks[c].themes[j].name))

RECURSIVE ThemesFrom(_, _, _)
ThemesFrom(st, c, j) ==
    IF c > Len(st.chunks) THEN st
    ELSE IF st.chunks[c].chunkId = 0 \/ j > Len(st.chunks[c].themes)
    THEN ThemesFrom(st, c + 1, 1)
    ELSE ThemesFrom(AddTheme(st, c, j), c, j + 1)

SortedThemes(st) ==
    [ chunks |-> st.chunks,
      themes |-> StableSortDesc(MapValues(st.map),
                                 [e \in DOMAIN st.map |-> st.map[e].value.occurrences]) ]

aggregateThemes(chunks) ==
    SortedThemes(ThemesFrom([chunks |-> chunks, map |-> <<>>], 1, 1))

\* the two branches of the forEach body of aggregateSettings
AddSettingAs(st, c, j, key) ==
    LET setting == st.chunks[c].settings[j]
        e == KeyIndex(st.map, key)
    IN IF e # 0
       THEN [st EXCEPT !.map[e].value =
                [ location    |-> @.location,
                  description |-> MergeDescription(@.description, setting.description),
                  occurrences |-> CountAgain(@.occurrences),
                  pages       |-> MergePages(@.pages, PageStartOf(c)) ]]
       ELSE [st EXCEPT !.map = Append(@, [key |-> key, value |->
                [ location    |-> setting.location,
                  description |-> setting.description,
                  occurrences |-> 1,
                  pages       |-> FirstPages(PageStartOf(c)) ]])]

\* the body of chunk.analysis.settings.forEach
AddSetting(st, c, j) ==
    IF st.chunks[c].settings[j].location = <<>> THEN st
    ELSE AddSettingAs(st, c, j, normalizeEntityName(st.chunks[c].settings[j].location))

RECURSIVE SettingsFrom(_, _, _)
SettingsFrom(st, c, j) ==
    IF c > Len(st.chunks) THEN st
    ELSE IF st.chunks[c].chunkId = 0 \/ j > Len(st.chunks[c].settings)
    THEN SettingsFrom(st, c + 1, 1)
    ELSE SettingsFrom(AddSetting(st, c, j), c, j + 1)

SortedSettings(st) ==
    [ chunks   |-> st.chunks,
      settings |-> StableSortDesc(MapValues(st.map),
                                 [e \in DOMAIN st.map |-> st.map[e].value.occurrences]) ]

aggregateSettings(chunks) ==
    SortedSettings(SettingsFrom([chunks |-> chunks, map |-> <<>>], 1, 1))

RECURSIVE EventsFrom(_, _)

\* events.push({...}) for the described events of chunk c
PositionedEvents(described, c) ==
    [j \in DOMAIN described |->
        [ description |-> described[j].description,
          importance  |-> described[j].importance,
          position    |-> c - 1,
          pageStart   |-> PageStartOf(c) ]]

\* createPlotSummary, step 1: the described events of the analysed chunks,
\* in chunk order, each with the index of its chunk
EventsFrom(chunks, c) ==
    IF c > Len(chunks) THEN <<>>
    ELSE (IF chunks[c].chunkId = 0 THEN <<>>
          ELSE PositionedEvents(SelectSeq(chunks[c].events,
                                          LAMBDA ev : ev.description # <<>>), c))
         \o EventsFrom(chunks, c + 1)

\* createPlotSummary, step 2
TimelineOf(events) ==
    [k \in DOMAIN events |-> [ description |-> events[k].description,
                               importance  |-> events[k].importance,
                               page        |-> events[k].pageStart ]]

\* the words that mark an event as major
MajorWords == {"significant", "major", "important", "crucial"}

RECURSIVE PickByPosition(_, _, _)
\* positions.forEach over [0, 0.25, 0.5, 0.75, 1], from quarter `num` on
PickByPosition(majorEvents, events, num) ==
    IF num > 4 THEN majorEvents
    ELSE LET idx == (num * (Len(events) - 1)) \div 4
         IN PickByPosition(
                IF idx \in 0..(Len(events) - 1) /\ ~ListIncludes(majorEvents, events[idx + 1])
                THEN Append(majorEvents, events[idx + 1])
                ELSE majorEvents,
                events, num + 1)

\* the events picked by position are added when fewer than five are marked
WithPicked(marked, events) ==
    IF Len(marked) < 5 THEN PickByPosition(marked, events, 0) ELSE marked

\* createPlotSummary, step 3
MajorEventsOf(events) ==
    WithPicked(SelectSeq(events, LAMBDA ev : ev.importance \in MajorWords), events)

\* the key that sorts first among the entries of a frequency map: the most
\* frequent, and among equals the first inserted; null when there is none
Predominant(values) ==
    LET norm == [k \in DOMAIN values |-> normalizeEntityName(values[k])]
        Freq(k) == Cardinality({j \in DOMAIN norm : norm[j] = norm[k]})
    IN IF values = <<>> THEN NoTone
       ELSE norm[CHOOSE k \in DOMAIN norm :
                     /\ \A j \in DOMAIN norm : Freq(j) <= Freq(k)
                     /\ \A j \in 1..(k - 1) : Freq(j) < Freq(k)]

synthesizeStyle(chunks) ==
    LET tones == SelectSeq([c \in DOMAIN chunks |->
                               IF chunks[c].chunkId = 0 THEN NoTone ELSE chunks[c].tone],
                           LAMBDA tone : tone # NoTone)
    IN [ tone            |-> Predominant(tones),
         voice           |-> NoTone,
         literaryDevices |-> <<>>,
         notable         |-> <<>> ]

RECURSIVE QuotesFrom(_, _)

\* allQuotes.push({...}) for the quotes of chunk c that have a text
PagedQuotes(quoted, c) ==
    [j \in DOMAIN quoted |->
        [ quote       |-> quoted[j].quote,
          explanation |-> quoted[j].explanation,
          page        |-> PageStartOf(c),
          chunkId     |-> c ]]

\* identifyKeyQuotes: allQuotes
QuotesFrom(chunks, c) ==
    IF c > Len(chunks) THEN <<>>
    ELSE (IF chunks[c].chunkId = 0 THEN <<>>
          ELSE PagedQuotes(SelectSeq(chunks[c].keyQuotes, LAMBDA qu : qu.quote # <<>>), c))
         \o QuotesFrom(chunks, c + 1)

\* a selection that takes three quotes from each section
SectionQuotes_TakesThree(sorted, i) ==
    LET sectionSize == (Len(sorted) + 4) \div 5
        section == Slice(sorted, i * sectionSize, (i + 1) * sectionSize)
    IN Slice(section, 0, 3)

\* the quotes taken from section i of the page-ordered quotes
SectionQuotes(sorted, i) ==
    LET sectionSize == (Len(sorted) + 4) \div 5
        section == Slice(sorted, i * sectionSize, (i + 1) * sectionSize)
    IN Slice(section, 0, 2)

\* the selection among all quotes: all of them up to ten, else two from
\* each of five page-ordered sections
SelectedQuotes(allQuotes, sorted) ==
    IF Len(allQuotes) <= 10 THEN allQuotes
    ELSE SectionQuotes(sorted, 0) \o SectionQuotes(sorted, 1) \o SectionQuotes(sorted, 2)
         \o SectionQuotes(sorted, 3) \o SectionQuotes(sorted, 4)

\* allQuotes.sort((a, b) => (a.page || 0) - (b.page || 0))
SortedByPage(allQuotes) ==
    StableSortDesc(allQuotes, [k \in DOMAIN allQuotes |-> 0 - allQuotes[k].page])

SelectQuotes(allQuotes) == SelectedQuotes(allQuotes, SortedByPage(allQuotes))

identifyKeyQuotes(chunks) == SelectQuotes(QuotesFrom(chunks, 1))

\* the summary text the model returns, and the text of the catch branch
ModelSummary == "summary"
PlotPlaceholder == "Failed to generate plot summary. Please review the timeline of events."

\* how the plot-summary request can end: a reply with a response text, a
\* rejected request (network error, non-2xx status), a reply without a
\* response text (response.data.response.trim() throws inside the try)
PlotOutcomes == {"ok", "rejected", "noResponseText"}
PlotFailures == {"rejected", "noResponseText"}

\* a catch branch that leaves the summary unset
PlotSummaryOf_NoFallback(outcome) ==
    IF outcome = "ok" THEN ModelSummary ELSE "null"

\* createPlotSummary, step 4: the try / catch around the request
PlotSummaryOf(outcome) ==
    IF outcome = "ok" THEN ModelSummary ELSE PlotPlaceholder

\* how the narrative-structure request can end: a JSON object with type, arc
\* and segments, text without any JSON object, braces that do not parse, a
\* rejected request
StructureOutcomes == {"json", "noJson", "badJson", "rejected"}
StructureFailures == {"noJson", "badJson", "rejected"}

\* determineNarrativeStructure: the structure stored for each outcome
NarrativeStructureOf(outcome) ==
    CASE outcome = "json" ->
             [type |-> "linear", arc |-> "arc", segments |-> <<"segment">>]
      [] outcome = "noJson" ->
             [type |-> "Unknown", arc |-> "rawResponse", segments |-> <<>>]
      [] OTHER ->
             [type |-> "Unable to determine", arc |-> "Error in analysis", segments |-> <<>>]

\* globalAnalysis as the BookAnalysis constructor builds it
NewGlobalAnalysis ==
    [ characters           |-> <<>>,
      mainCharacters       |-> <<>>,
      supportingCharacters |-> <<>>,
      plotSummary          |-> "null",
      majorEvents          |-> <<>>,
      themes               |-> <<>>,
      settings             |-> <<>>,
      timeline             |-> <<>>,
      style                |-> [tone |-> NoTone, voice |-> NoTone, notable |-> <<>>],
      structure            |-> [type |-> "null", arc |-> "null", segments |-> <<>>],
      keyQuotes            |-> <<>> ]

\* the globalAnalysis at the request of createPlotSummary
GlobalAtPlotRequest(chunks, cs, th, se, events) ==
    [ chunks |-> chunks,
      global |-> [NewGlobalAnalysis EXCEPT
                     !.characters = cs.characters,
                     !.mainCharacters = cs.mainCharacters,
                     !.supportingCharacters = cs.supportingCharacters,
                     !.themes = th.themes,
                     !.settings = se.settings,
                     !.timeline = TimelineOf(events),
                     !.majorEvents = MajorEventsOf(events)] ]

\* synthesizeBookAnalysis, step 4 to its request
AfterSettings(cs, th, se) ==
    GlobalAtPlotRequest(se.chunks, cs, th, se, EventsFrom(se.chunks, 1))

\* synthesizeBookAnalysis, step 3 on: each step reads the chunks as the one
\* before left them
AfterThemes(cs, th) == AfterSettings(cs, th, aggregateSettings(th.chunks))

\* synthesizeBookAnalysis, step 2 on
AfterCharacters(cs) == AfterThemes(cs, aggregateThemes(cs.chunks))

\* synthesizeBookAnalysis from its start to the request of createPlotSummary:
\* the three aggregations, the timeline and the major events
SynthesisToPlotRequest(chunks) == AfterCharacters(aggregateCharacters(chunks))

\* the second synthesis has not run
NotAgain == [ran |-> FALSE]

\* a book freshly loaded with n chunks, none analysed
InitSynth ==
    /\ InitBook
    /\ InitStream
    /\ IdleStrip
    /\ IdleChunk
    /\ IdleRest
    /\ \E n \in 0..MaxSynthChunks :
           bookAnalysis = [NewBookAnalysis(<<"a", ".">>, n) EXCEPT
                              !.globalAnalysis = NewGlobalAnalysis]
    /\ synthesis = [ pc               |-> "loaded",
                     i                |-> 0,
                     analyses         |-> <<>>,
                     global           |-> NewGlobalAnalysis,
                     plotOutcome      |-> "none",
                     structureOutcome |-> "none",
                     again            |-> NotAgain ]

\* where analyzeBook stands when the synthesis threw (r is not read), or
\* returned r at the request of createPlotSummary
AtSynthesis(attached, r) ==
    IF SynthesisThrows(attached)
    THEN [ book   |-> MarkFailed(attached, "synthesis error"),
           pc     |-> "failed",
           global |-> NewGlobalAnalysis ]
    ELSE [ book   |-> [attached EXCEPT !.chunks = r.chunks],
           pc     |-> "plot",
           global |-> r.global ]

\* the chunks with the analyses attached go to synthesizeBookAnalysis
Synthesize(attached) == AtSynthesis(attached, SynthesisToPlotRequest(attached.chunks))

\* analyzeBook once analyzeChunks has returned its analyses: attach them, call
\* synthesizeBookAnalysis, which runs to the request of createPlotSummary or
\* throws into analyzeBook's catch
AfterAnalyzeChunks(o, analyses) == Synthesize(AttachAnalyses(o, analyses))

\* the step of analyzeBook that leaves analyzeChunks with result r
LeaveChunks(r, analyses) ==
    /\ bookAnalysis' = r.book
    /\ synthesis' = [synthesis EXCEPT !.pc = r.pc, !.global = r.global,
                                      !.analyses = analyses]

\* analyzeBook to its first await
StartAnalysis ==
    /\ synthesis.pc = "loaded"
    /\ IF bookAnalysis.totalChunks = 0
       THEN LeaveChunks(AfterAnalyzeChunks(ResetStatus(bookAnalysis, Now(1)), <<>>), <<>>)
       ELSE /\ bookAnalysis' = ResetStatus(bookAnalysis, Now(1))
            /\ synthesis' = [synthesis EXCEPT !.pc = "chunks", !.i = 1]
    /\ UNCHANGED notSynth

\* analyzeChunks: analyzeChunk of chunk i returns an analysis or throws
\* (result NoAnalysis); after the last chunk analyzeBook goes on
AnalyzeChunkDone ==
    /\ synthesis.pc = "chunks"
    /\ \E result \in ChunkAnalyses(synthesis.i) \cup {NoAnalysis} :
           LET threw == result.chunkId = 0
               analyses == IF threw THEN synthesis.analyses
                           ELSE Append(synthesis.analyses, result)
               o == IF threw THEN bookAnalysis
                    ELSE progressCallback(bookAnalysis, synthesis.i)
           IN IF synthesis.i = bookAnalysis.totalChunks
              THEN LeaveChunks(AfterAnalyzeChunks(o, analyses), analyses)
              ELSE /\ bookAnalysis' = o
                   /\ synthesis' = [synthesis EXCEPT !.i = @ + 1, !.analyses = analyses]
    /\ UNCHANGED notSynth

\* the request of createPlotSummary ends; synthesizeStyle and
\* identifyKeyQuotes run, the request of determineNarrativeStructure is sent
PlotSummaryDone ==
    /\ synthesis.pc = "plot"
    /\ \E outcome \in PlotOutcomes :
           synthesis' = [synthesis EXCEPT
               !.pc = "structure",
               !.plotOutcome = outcome,
               !.global = [@ EXCEPT !.plotSummary = PlotSummaryOf(outcome),
                                    !.style = synthesizeStyle(bookAnalysis.chunks),
                                    !.keyQuotes = identifyKeyQuotes(bookAnalysis.chunks)]]
    /\ UNCHANGED <<bookAnalysis, notSynth>>

\* the request of determineNarrativeStructure ends; synthesizeBookAnalysis
\* returns and analyzeBook stores the result
NarrativeStructureDone ==
    /\ synthesis.pc = "structure"
    /\ \E outcome \in StructureOutcomes :
           LET global == [synthesis.global EXCEPT
                             !.structure = NarrativeStructureOf(outcome)]
           IN /\ synthesis' = [synthesis EXCEPT !.pc = "done",
                                                !.structureOutcome = outcome,
                                                !.global = global]
              /\ bookAnalysis' = MarkCompleted(bookAnalysis, global, Now(1))
    /\ UNCHANGED notSynth

\* the second call has run to its request with result r
Resynthesized(r) ==
    /\ bookAnalysis' = [bookAnalysis EXCEPT !.chunks = r.chunks]
    /\ synthesis' = [synthesis EXCEPT
           !.pc = "again",
           !.again = [ ran        |-> TRUE,
                       characters |-> r.global.characters,
                       themes     |-> r.global.themes,
                       settings   |-> r.global.settings ]]

\* synthesizeBookAnalysis called once more on the chunks of the finished
\* book, to the request of createPlotSummary
SynthesizeAgain ==
    /\ synthesis.pc = "done"
    /\ Resynthesized(SynthesisToPlotRequest(bookAnalysis.chunks))
    /\ UNCHANGED notSynth

NextSynth ==
    \/ StartAnalysis
    \/ AnalyzeChunkDone
    \/ PlotSummaryDone
    \/ NarrativeStructureDone
    \/ SynthesizeAgain

(***************************************************************************)
(* identifyKeyQuotes on its own: the selection among the collected quotes. *)
(***************************************************************************)
\* chunk.metadata.pageStart of the chunks the quotes come from (0: null)
QuotePages == 0..2

RECURSIVE CollectedFrom(_, _, _)
\* allQuotes after the forEach over the chunks from chunk c on: chunk c
\* gives counts[c] quotes, all of page pages[c]; the text of a quote is
\* modelled by the chunk and the place it has there
CollectedFrom(counts, pages, c) ==
    IF c > MaxQuoteChunks THEN <<>>
    ELSE [j \in 1..counts[c] |-> [ quote       |-> <<c, j>>,
                                   explanation |-> <<>>,
                                   page        |-> pages[c],
                                   chunkId     |-> c ]]
         \o CollectedFrom(counts, pages, c + 1)

InitQuotes ==
    /\ InitBook
    /\ InitStream
    /\ IdleStrip
    /\ IdleChunk
    /\ IdleSynth
    /\ IdleParse
    /\ IdleViewer
    /\ \E counts \in [1..MaxQuoteChunks -> 0..MaxChunkQuotes] :
       \E pages \in [1..MaxQuoteChunks -> QuotePages] :
           collected = CollectedFrom(counts, pages, 1)
    /\ selected = NotRun

\* identifyKeyQuotes from the end of its forEach to its assignment
IdentifyKeyQuotes ==
    /\ selected = NotRun
    /\ selected' = SelectQuotes(collected)
    /\ UNCHANGED <<collected, parseVars, viewer, notRest>>

NextQuotes == IdentifyKeyQuotes

(***************************************************************************)
(* analyzeChunk on its own: the reply of the model is a text of whole      *)
(* lines; none of them holds a think tag, so removeThinkingContent leaves  *)
(* it as it is.                                                            *)
(***************************************************************************)
\* the lines a reply is made of: braces on lines of their own, two members
\* of a JSON object ("characters":["x"] and "characters":"x"), section
\* headers of the prose answer, two bullets, a line of plain words and a
\* code fence (three backquotes)
ReplyLines == { "{", "}", "chars:[x]", "chars:x", "CHARACTERS:", "EVENTS:",
                "STYLE:", "SETTINGS:", "- x", "- imagery", "words", "fence" }

MemberLines == {"chars:[x]", "chars:x"}

BulletLines == {"- x", "- imagery"}

\* a JavaScript value of a list field: an array with its items, or not one
JsArray(items) == [type |-> "array", items |-> items]

JsString == [type |-> "string", items |-> <<>>]

\* new ChunkAnalysis(chunkId)
NewChunkAnalysis(chunkId) ==
    [ chunkId         |-> chunkId,
      characters      |-> JsArray(<<>>),
      events          |-> JsArray(<<>>),
      themes          |-> JsArray(<<>>),
      style           |-> [ tone            |-> "null",
                            literaryDevices |-> JsArray(<<>>),
                            narrativeVoice  |-> "null",
                            notable         |-> JsArray(<<>>) ],
      keyQuotes       |-> JsArray(<<>>),
      plotDevelopment |-> "null",
      settings        |-> JsArray(<<>>),
      rawLlmOutput    |-> <<>> ]

\* the first line from line from on that is one of lines, 0 when none is
FirstLineIn(text, from, lines) ==
    IF \E i \in from..Len(text) : text[i] \in lines
    THEN CHOOSE i \in from..Len(text) :
             /\ text[i] \in lines
             /\ \A j \in from..(i - 1) : text[j] \notin lines
    ELSE 0

\* the last line that is one of lines, 0 when none is
LastLineIn(text, lines) ==
    IF \E i \in 1..Len(text) : text[i] \in lines
    THEN CHOOSE i \in 1..Len(text) :
             /\ text[i] \in lines
             /\ \A j \in (i + 1)..Len(text) : text[j] \notin lines
    ELSE 0

LinesBetween(text, first, last) == [i \in 1..(last - first + 1) |-> text[first + i - 1]]

\* the three matches of analyzeChunk in their order: no line opens a json
\* fence; a fence opens with its line break, so the closing one is the next
\* fence at least two lines on and group 1 is what lies between; the brace
\* match is greedy, from the first opening brace to the last closing one
FencedMatch(text, open) ==
    IF open = 0 \/ FirstLineIn(text, open + 2, {"fence"}) = 0
    THEN [found |-> FALSE, jsonStr |-> <<>>]
    ELSE [found |-> TRUE,
          jsonStr |-> LinesBetween(text, open + 1, FirstLineIn(text, open + 2, {"fence"}) - 1)]

BraceMatch(text, open, close) ==
    IF open = 0 \/ close < open
    THEN [found |-> FALSE, jsonStr |-> <<>>]
    ELSE [found |-> TRUE, jsonStr |-> LinesBetween(text, open, close)]

jsonMatch(rawOutput) ==
    IF FencedMatch(rawOutput, FirstLineIn(rawOutput, 1, {"fence"})).found
    THEN FencedMatch(rawOutput, FirstLineIn(rawOutput, 1, {"fence"}))
    ELSE BraceMatch(rawOutput, FirstLineIn(rawOutput, 1, {"{"}), LastLineIn(rawOutput, {"}"}))

\* JSON.parse: of these lines only an object of members is JSON (the
\* members are taken as separated by commas); a key given twice has its
\* last value
JsonParse(jsonStr) ==
    IF /\ Len(jsonStr) >= 2
       /\ jsonStr[1] = "{"
       /\ jsonStr[Len(jsonStr)] = "}"
       /\ \A i \in 2..(Len(jsonStr) - 1) : jsonStr[i] \in MemberLines
    THEN [ok |-> TRUE,
          characters |-> IF LastLineIn(jsonStr, MemberLines) = 0 THEN "undefined"
                         ELSE jsonStr[LastLineIn(jsonStr, MemberLines)]]
    ELSE [ok |-> FALSE, characters |-> "undefined"]

\* the header words a line holds, whatever their case
HeaderLines(startSection) ==
    CASE startSection = "CHARACTERS" -> {"CHARACTERS:", "chars:[x]", "chars:x"}
      [] startSection = "EVENTS"     -> {"EVENTS:"}
      [] startSection = "STYLE"      -> {"STYLE:"}
      [] startSection = "SETTINGS"   -> {"SETTINGS:"}
      [] OTHER                       -> {}

\* extractSection: found tells a match of the start header, rest whether
\* text remains on the header line behind the header (never a bullet),
\* lines the lines that follow up to the end header or the end of the text
SectionFrom(text, start, end) ==
    [ found |-> TRUE,
      rest  |-> text[start] \in MemberLines,
      lines |-> LinesBetween(text, start + 1, IF end = 0 THEN Len(text) ELSE end - 1) ]

extractSection(text, startSection, endSection) ==
    IF FirstLineIn(text, 1, HeaderLines(startSection)) = 0
    THEN [found |-> FALSE, rest |-> FALSE, lines |-> <<>>]
    ELSE SectionFrom(text, FirstLineIn(text, 1, HeaderLines(startSection)),
                     FirstLineIn(text, FirstLineIn(text, 1, HeaderLines(startSection)) + 1,
                                 HeaderLines(endSection)))

\* if (section): null and the empty string are both false
Truthy(section) == section.found /\ (section.rest \/ section.lines # <<>>)

IsBullet(line) == line \in BulletLines

IsDevice(line) == line = "- imagery"

\* the line without its leading dash and blank, trimmed
BulletContent(line) == IF line = "- x" THEN "x" ELSE "imagery"

\* extractNameFromLine: the content has no capital, quote or bracket, so
\* its first three words are the name
CharacterOf(line) == [name |-> BulletContent(line), description |-> BulletContent(line)]

EventFromLine(line) == [description |-> BulletContent(line)]

SettingFromLine(line) == [location |-> BulletContent(line)]

CharacterItems(lines) == [i \in 1..Len(lines) |-> CharacterOf(lines[i])]

EventItems(lines) == [i \in 1..Len(lines) |-> EventFromLine(lines[i])]

SettingItems(lines) == [i \in 1..Len(lines) |-> SettingFromLine(lines[i])]

DeviceItems(lines) == [i \in 1..Len(lines) |-> BulletContent(lines[i])]

\* the style of the analysis after the style section was read: no line
\* speaks of tone, voice, narrative or pov
StyleFrom(style, section) ==
    IF Truthy(section) /\ SelectSeq(section.lines, IsDevice) # <<>>
    THEN [style EXCEPT !.literaryDevices = JsArray(DeviceItems(SelectSeq(section.lines, IsDevice)))]
    ELSE style

\* extractInformationFromText: no line is a header of the themes, of the
\* key quotes or of the plot development, so these fields stay as they are
WithSections(analysis, characters, events, style, settings) ==
    [analysis EXCEPT
        !.characters = IF Truthy(characters)
                       THEN JsArray(CharacterItems(SelectSeq(characters.lines, IsBullet)))
                       ELSE @,
        !.events     = IF Truthy(events)
                       THEN JsArray(EventItems(SelectSeq(events.lines, IsBullet)))
                       ELSE @,
        !.style      = StyleFrom(@, style),
        !.settings   = IF Truthy(settings)
                       THEN JsArray(SettingItems(SelectSeq(settings.lines, IsBullet)))
                       ELSE @ ]

extractInformationFromText(text, analysis) ==
    WithSections(analysis,
                 extractSection(text, "CHARACTERS", "EVENTS"),
                 extractSection(text, "EVENTS", "THEMES"),
                 extractSection(text, "STYLE", "KEY QUOTES"),
                 extractSection(text, "SETTINGS", "none"))

\* if (parsed.characters) analysis.characters = parsed.characters: both
\* values are true, and neither is looked at any further
WithParsed(analysis, parsed) ==
    [analysis EXCEPT
        !.characters = CASE parsed.characters = "chars:[x]" -> JsArray(<<"x">>)
                         [] parsed.characters = "chars:x"   -> JsString
                         [] OTHER                           -> @ ]

Returned_(analysis, via) == [kind |-> "returned", via |-> via, analysis |-> analysis]

\* the inner try of analyzeChunk and its catch
ParsedInto_Rethrows(analysis, rawOutput, match, parsed) ==
    IF ~match.found THEN Returned_(extractInformationFromText(rawOutput, analysis), "heuristic")
    ELSE IF ~parsed.ok THEN [kind |-> "raised"]
    ELSE Returned_(WithParsed(analysis, parsed), "json")

ParsedInto(analysis, rawOutput, match, parsed) ==
    IF ~match.found THEN Returned_(extractInformationFromText(rawOutput, analysis), "heuristic")
    ELSE IF ~parsed.ok THEN Returned_(extractInformationFromText(rawOutput, analysis), "heuristic")
    ELSE Returned_(WithParsed(analysis, parsed), "json")

\* analyzeChunk: a rejected request is thrown again by the outer catch;
\* a response without a response field gives undefined, whose match throws
\* in the inner try and again in extractSection, outside of it
analyzeChunk(chunkId, response) ==
    IF response.kind # "text" THEN [kind |-> "raised"]
    ELSE ParsedInto([NewChunkAnalysis(chunkId) EXCEPT !.rawLlmOutput = response.lines],
                    response.lines, jsonMatch(response.lines),
                    JsonParse(jsonMatch(response.lines).jsonStr))

ModelReplies ==
    {[kind |-> "rejected", lines |-> <<>>], [kind |-> "absent", lines |-> <<>>]}
    \cup {[kind |-> "text", lines |-> ls] : ls \in SeqsUpTo(ReplyLines, MaxReplyLines)}

InitParse ==
    /\ InitBook
    /\ InitStream
    /\ IdleStrip
    /\ IdleChunk
    /\ IdleSynth
    /\ IdleQuotes
    /\ IdleViewer
    /\ modelReply \in ModelReplies
    /\ parsedAnalysis = [kind |-> "none"]

\* one call of analyzeChunk, for chunk 1
AnalyzeChunk ==
    /\ parsedAnalysis.kind = "none"
    /\ parsedAnalysis' = analyzeChunk(1, modelReply)
    /\ UNCHANGED <<modelReply, quoteVars, viewer, notRest>>

NextParse == AnalyzeChunk

(***************************************************************************)
(* The book service with one book id, where every request a run sent to    *)
(* the backend is answered or fails in the end.                            *)
(***************************************************************************)
TheBook == <<"a", ".">>

NextOneBook ==
    \/ \E force \in BOOLEAN : loadAndProcessBook(TheBook, force)
    \/ \E force \in BOOLEAN : PostAnalyze(TheBook, force)
    \/ \E r \in 1..MaxRuns, outcome \in ChunkOutcomes : ChunkReply(r, outcome)
    \/ \E r \in 1..MaxRuns : PlotReply(r)
    \/ \E r \in 1..MaxRuns, writeOk \in BOOLEAN : StructReply(r, writeOk)
    \/ GetResults(TheBook)

\* the awaited request of run r returns or fails, and the run goes on
RunStep(r) ==
    \/ \E outcome \in ChunkOutcomes : ChunkReply(r, outcome)
    \/ PlotReply(r)
    \/ \E writeOk \in BOOLEAN : StructReply(r, writeOk)

(***************************************************************************)
(* pdf-viewer.js: the module variables pdfDoc (kind, numPages), pageNum,   *)
(* pageRendering and pageNumPending (0: null); inFlight holds the calls of *)
(* renderPage whose promises are not settled, rendered the page the canvas *)
(* shows, pageNumText the text of the page-num element.                    *)
(***************************************************************************)
\* what the page-input field may hold
InputSyms == {"0", "2", "3", "9", "-", "x"}

PageInputs == SeqsUpTo(InputSyms, 2)

DigitValue(c) == CASE c = "0" -> 0 [] c = "2" -> 2 [] c = "3" -> 3 [] c = "9" -> 9
                   [] OTHER -> -1

\* parseInt(digits, 10) of a text without sign: the digits in front of the
\* first other character, NotANumber when there is none
RECURSIVE ParseDigits(_, _, _)
ParseDigits(s, k, value) ==
    IF k > Len(s) \/ DigitValue(s[k]) < 0 THEN value
    ELSE ParseDigits(s, k + 1, (IF value = NotANumber THEN 0 ELSE 10 * value) + DigitValue(s[k]))

\* parseInt(input.value, 10); only -0 is 0
parseInt(s) ==
    IF s # <<>> /\ s[1] = "-"
    THEN IF ParseDigits(s, 2, NotANumber) = NotANumber THEN NotANumber
         ELSE 0 - ParseDigits(s, 2, NotANumber)
    ELSE ParseDigits(s, 1, NotANumber)

\* renderPage(num): the flag is set, getPage requested, the text updated
renderPage(v, num) ==
    [v EXCEPT !.pageRendering = TRUE,
              !.inFlight = Append(@, [page |-> num, phase |-> "getPage"]),
              !.pageNumText = num]

\* a queueRenderPage that renders at once
queueRenderPage_AtOnce(v, num) ==
    renderPage(v, num)

queueRenderPage(v, num) ==
    IF v.pageRendering THEN [v EXCEPT !.pageNumPending = num]
    ELSE renderPage(v, num)

\* pdfDoc.numPages throws while pdfDoc is null: the handler ends there
onPrevPage(v) ==
    IF v.pageNum <= 1 THEN v
    ELSE queueRenderPage([v EXCEPT !.pageNum = @ - 1], v.pageNum - 1)

onNextPage(v) ==
    IF v.kind # "open" THEN v
    ELSE IF v.pageNum >= v.numPages THEN v
    ELSE queueRenderPage([v EXCEPT !.pageNum = @ + 1], v.pageNum + 1)

onGoToPage(v, pageNumber) ==
    IF pageNumber = NotANumber THEN v
    ELSE IF v.kind # "open" THEN v
    ELSE IF pageNumber < 1 \/ pageNumber > v.numPages THEN v
    ELSE queueRenderPage([v EXCEPT !.pageNum = pageNumber], pageNumber)

\* the script has run, the document of n pages is being fetched
InitViewer ==
    /\ InitBook
    /\ InitStream
    /\ IdleStrip
    /\ IdleChunk
    /\ IdleSynth
    /\ IdleQuotes
    /\ IdleParse
    /\ \E n \in 1..MaxViewerPages :
           viewer = [ kind           |-> "loading",
                      numPages       |-> n,
                      pageNum        |-> 1,
                      pageRendering  |-> FALSE,
                      pageNumPending |-> 0,
                      inFlight       |-> <<>>,
                      rendered       |-> 0,
                      pageNumText    |-> 0 ]

\* initPdf: getDocument resolves
DocumentLoaded ==
    /\ viewer.kind = "loading"
    /\ viewer' = renderPage([viewer EXCEPT !.kind = "open"], viewer.pageNum)
    /\ UNCHANGED <<quoteVars, parseVars, notRest>>

\* initPdf: getDocument rejects, pdfDoc stays null
DocumentFails ==
    /\ viewer.kind = "loading"
    /\ viewer' = [viewer EXCEPT !.kind = "failed"]
    /\ UNCHANGED <<quoteVars, parseVars, notRest>>

OnPrevPage ==
    /\ viewer' = onPrevPage(viewer)
    /\ UNCHANGED <<quoteVars, parseVars, notRest>>

OnNextPage ==
    /\ viewer' = onNextPage(viewer)
    /\ UNCHANGED <<quoteVars, parseVars, notRest>>

OnGoToPage(input) ==
    /\ viewer' = onGoToPage(viewer, parseInt(input))
    /\ UNCHANGED <<quoteVars, parseVars, notRest>>

\* pdfDoc.getPage(num) resolves for call k: the canvas is sized and the
\* rendering started
PageFetched(k) ==
    /\ k \in DOMAIN viewer.inFlight
    /\ viewer.inFlight[k].phase = "getPage"
    /\ viewer' = [viewer EXCEPT !.inFlight[k].phase = "render"]
    /\ UNCHANGED <<quoteVars, parseVars, notRest>>

\* what is left of the in-flight calls without call k
WithoutCall(calls, k) == SubSeq(calls, 1, k - 1) \o SubSeq(calls, k + 1, Len(calls))

\* renderTask.promise resolves for call k: the flag is cleared and the
\* pending page, if any, rendered
AfterRender(v) ==
    IF v.pageNumPending # 0
    THEN [renderPage(v, v.pageNumPending) EXCEPT !.pageNumPending = 0]
    ELSE v

RenderFinished(k) ==
    /\ k \in DOMAIN viewer.inFlight
    /\ viewer.inFlight[k].phase = "render"
    /\ viewer' = AfterRender([viewer EXCEPT !.pageRendering = FALSE,
                                            !.rendered = viewer.inFlight[k].page,
                                            !.inFlight = WithoutCall(@, k)])
    /\ UNCHANGED <<quoteVars, parseVars, notRest>>

NextViewer ==
    \/ DocumentLoaded
    \/ DocumentFails
    \/ OnPrevPage
    \/ OnNextPage
    \/ \E input \in PageInputs : OnGoToPage(input)
    \/ \E k \in 1..2 : PageFetched(k)
    \/ \E k \in 1..2 : RenderFinished(k)

Init == InitBook /\ InitStream /\ IdleStrip /\ IdleChunk /\ IdleSynth /\ IdleRest

SpecBook == Init /\ [][NextBook]_vars

SpecStream == Init /\ [][NextStream]_vars

SpecDisconnect == Init /\ [][NextDisconnect]_vars

SpecBrokenStream == Init /\ [][NextBrokenStream]_vars

SpecStrip == InitStrip /\ [][NextStrip]_vars

SpecChunk == InitChunk /\ [][NextChunk]_vars

SpecSynth == InitSynth /\ [][NextSynth]_vars

SpecQuotes == InitQuotes /\ [][NextQuotes]_vars

SpecParse == InitParse /\ [][NextParse]_vars

SpecViewer == InitViewer /\ [][NextViewer]_vars

SpecOneBook ==
    /\ Init
    /\ [][NextOneBook]_vars
    /\ \A r \in 1..MaxRuns : WF_vars(RunStep(r))

(***************************************************************************)
(* Properties of the book service (checked under SpecBook).                *)
(***************************************************************************)
StatusValues == {"pending", "in-progress", "completed", "failed"}

InFlight(r) == runs[r].pc \in {"chunk", "plot", "struct"}

\* the run started by this step, 0 when the step starts none
Started == IF Len(runs') > Len(runs) THEN Len(runs') ELSE 0

\* run r returns (pc' = "done") or throws (pc' = "failed") in this step
Finishes(r) == InFlight(r) /\ runs'[r].pc \in {"done", "failed"}

\* no other analyzeBook run ever worked on the object of run r
AloneOnObject(r) == \A q \in DOMAIN runs : q # r => runs[q].obj # runs[r].obj

\* C1: a run of analyzeBook sets the status to in-progress, with startTime set
\* and chunksAnalyzed = 0, before it has analysed any chunk (a book that was
\* never analysed is pending until then); it leaves the status alone until it
\* ends; it ends by setting completed, with endTime and its own globalAnalysis,
\* or failed, with an error message.  The status changes in no other step and
\* takes no other value, so a run that has the object to itself sees
\* in-progress from its start to its end.
C1_RunLifecycle ==
    [][ /\ \A o \in DOMAIN heap' : heap'[o].status \in StatusValues
        /\ Started # 0 =>
             LET o == runs'[Started].obj IN
             /\ heap'[o].status = "in-progress"
             /\ heap'[o].startTime = Now(Started)
             /\ heap'[o].chunksAnalyzed = 0
             /\ runs'[Started].analyses = <<>>
             /\ heap[o].startTime = NoTime => heap[o].status = "pending"
        /\ \A r \in DOMAIN runs :
             LET o == runs[r].obj IN
             /\ runs'[r].pc = "done" /\ InFlight(r) =>
                  /\ heap'[o].status = "completed"
                  /\ heap'[o].endTime = Now(r)
                  /\ heap'[o].globalAnalysis.run = r
             /\ runs'[r].pc = "failed" /\ InFlight(r) =>
                  /\ heap'[o].status = "failed"
                  /\ heap'[o].error # NoError
             /\ InFlight(r) /\ AloneOnObject(r) => heap[o].status = "in-progress"
        /\ \A o \in DOMAIN heap :
             heap'[o].status # heap[o].status =>
               \/ Started # 0 /\ runs'[Started].obj = o
               \/ \E r \in DOMAIN runs : runs[r].obj = o /\ Finishes(r)
        /\ \A o \in DOMAIN heap' \ DOMAIN heap :
             heap'[o].status \in {"pending", "completed"}
      ]_vars

\* C1 witness: one run has ended in completed with its results attached and
\* another run has ended in failed with its message
C1_Witness ==
    \E r1, r2 \in DOMAIN runs :
        /\ runs[r1].pc = "done"
        /\ heap[runs[r1].obj].status = "completed"
        /\ heap[runs[r1].obj].globalAnalysis.run = r1
        /\ runs[r2].pc = "failed"
        /\ runs[r2].obj # runs[r1].obj
        /\ heap[runs[r2].obj].status = "failed"
        /\ heap[runs[r2].obj].error # NoError

\* C2: analyzeChunks takes the chunks in input order one at a time; after each
\* chunk, failed or not, the progress callback has been called with
\* {current = chunks processed so far, total = chunks given}; the analyses
\* returned are those of the chunks that succeeded, in input order.
C2_ProgressAfterEachChunk ==
    \A r \in DOMAIN runs :
        InFlight(r) =>
          LET run == runs[r]
              n == Len(heap[run.obj].chunks)
              processed == IF run.pc = "chunk" THEN run.i - 1 ELSE n
          IN /\ Len(run.progress) = processed
             /\ \A k \in DOMAIN run.progress :
                    run.progress[k] = [current |-> k, total |-> n]
             /\ \A k \in DOMAIN run.analyses :
                    /\ run.analyses[k].chunkId \in 1..processed
                    /\ k > 1 => run.analyses[k - 1].chunkId < run.analyses[k].chunkId

\* C3: analyzeBook without force on a completed book returns success, leaves
\* the book's state and the cache as they are and starts no run, hence no
\* request to the model backend.
C3_CompletedIsNoOp ==
    [][ \A b \in BookIds :
          ( /\ lastResult'.op = "analyze"
            /\ lastResult'.bookId = b
            /\ ~lastResult'.force
            /\ bookAnalysesMap[b] # NoObj
            /\ heap[bookAnalysesMap[b]].status = "completed" )
          => /\ lastResult'.success
             /\ lastResult'.message = "Analysis already completed"
             /\ UNCHANGED <<bookAnalysesMap, heap, cache, runs>>
      ]_vars

\* C3 witness: an analyze request without force has just been answered for a
\* book whose analysis is completed
C3_Witness ==
    /\ lastResult.op = "analyze"
    /\ ~lastResult.force
    /\ bookAnalysesMap[lastResult.bookId] # NoObj
    /\ heap[bookAnalysesMap[lastResult.bookId]].status = "completed"
    /\ \E r \in DOMAIN runs : runs[r].pc = "done"

\* C4: a forced re-analysis replaces the prior state: when the forced run
\* starts on a book with a completed analysis, the globalAnalysis, the endTime
\* and the per-chunk analyses of the earlier run are gone from the state; and
\* what the forced run leaves at its end holds nothing an earlier run made.
C4_ForcedRunReplacesState ==
    [][ /\ ( /\ Started # 0
             /\ heap[runs'[Started].obj].status = "completed" )
           => LET o == heap'[runs'[Started].obj] IN
              /\ o.globalAnalysis = EmptyGlobal
              /\ o.endTime = NoTime
              /\ \A k \in DOMAIN o.chunks : o.chunks[k] = NoAnalysis
        /\ \A r \in DOMAIN runs :
             Finishes(r) =>
               LET o == heap'[runs[r].obj] IN
               /\ o.globalAnalysis.run \in {0, r}
               /\ \A k \in DOMAIN o.globalAnalysis.from :
                      o.globalAnalysis.from[k].run = r
               /\ \A k \in DOMAIN o.chunks : o.chunks[k].run \in {0, r}
      ]_vars

\* C5: a book's entry is written by one run at a time: no two runs for the
\* same book id are in flight together, and a run writes no other book's
\* entry.
C5_OneRunPerBook ==
    /\ \A r1, r2 \in DOMAIN runs :
          InFlight(r1) /\ InFlight(r2) /\ r1 # r2 => runs[r1].bookId # runs[r2].bookId
    /\ \A r \in DOMAIN runs, b \in BookIds :
          bookAnalysesMap[b] = runs[r].obj => b = runs[r].bookId

\* round(100 * cur / tot) as a relation: p - 1/2 <= 100 * cur / tot < p + 1/2
IsRounded(p, cur, tot) ==
    /\ 2 * tot * p - tot <= 200 * cur
    /\ 200 * cur < 2 * tot * p + tot

\* the record getAnalysisResults must give for book b in the current state
ResultMatchesState(b, res) ==
    IF bookAnalysesMap[b] = NoObj
    THEN res.status = "not_found" /\ DOMAIN res = {"success", "status"}
    ELSE LET o == heap[bookAnalysesMap[b]] IN
         /\ res.status = o.status
         /\ o.status \in {"pending", "in-progress"} =>
              /\ DOMAIN res = {"success", "bookId", "status", "progress"}
              /\ res.progress.current = o.chunksAnalyzed
              /\ res.progress.total = o.totalChunks
              /\ IF o.totalChunks = 0
                 THEN res.progress.percentage = NaN
                 ELSE IsRounded(res.progress.percentage, o.chunksAnalyzed, o.totalChunks)
         /\ o.status = "failed" =>
              /\ DOMAIN res = {"success", "bookId", "status", "error"}
              /\ res.error = o.error
         /\ o.status = "completed" =>
              /\ DOMAIN res = {"success", "bookId", "status", "bookInfo", "analysis", "stats"}
              /\ res.bookInfo = o.bookInfo
              /\ res.analysis = o.globalAnalysis
              /\ res.stats = [ chunksAnalyzed |-> o.chunksAnalyzed,
                               totalChunks |-> o.totalChunks,
                               startTime |-> o.startTime,
                               endTime |-> o.endTime ]

\* C6: getAnalysisResults gives not_found without an entry; for pending and
\* in-progress the status and progress {current, total, percentage} with the
\* percentage Math.round of 100 * current / total (3 of 10 gives 30; NaN when
\* total is 0); for failed the status and the error; for completed bookInfo,
\* globalAnalysis and the timing stats.  It changes nothing.
C6_ResultsFollowStatus ==
    /\ [](lastResult.op = "results" =>
            ResultMatchesState(lastResult.bookId, lastResult.result))
    /\ [](RoundPercent(3, 10) = 30)
    /\ [][lastResult'.op = "results" =>
            UNCHANGED <<bookAnalysesMap, heap, cache, runs>>]_vars

\* C6 witness: results were read for a book half of whose chunks are analysed,
\* and the percentage is 50
C6_Witness ==
    /\ lastResult.op = "results"
    /\ lastResult.result.status = "in-progress"
    /\ lastResult.result.progress.current = 1
    /\ lastResult.result.progress.total = 2
    /\ lastResult.result.progress.percentage = 50

(***************************************************************************)
(* Properties of the streaming rewrite (checked under SpecStream).         *)
(***************************************************************************)
\* the token texts the data handler wrote for document chunk i
ForwardedTexts(i) ==
    LET evs == SelectSeq(out, LAMBDA e : e.type = "token" /\ e.index = i
                                         /\ e # Separator(i))
    IN [k \in DOMAIN evs |-> evs[k].text]

\* the token texts written when each of the frames arrives whole
RECURSIVE WholeFrames(_, _)
WholeFrames(frags, st) ==
    IF frags = <<>> THEN st.tokens
    ELSE WholeFrames(Tail(frags), OnFrame(st, Head(frags)))

RECURSIVE Concat(_)
Concat(ss) == IF ss = <<>> THEN <<>> ELSE Head(ss) \o Concat(Tail(ss))

\* every frame the backend sent on the current stream has been delivered
AllDelivered == pc = "streaming" /\ wire = <<>>

\* C7: however the frames are cut into transport chunks, the token texts
\* forwarded are those forwarded when every frame arrives whole: nothing is
\* lost, duplicated, reordered or forwarded as raw frame text.
C7_SplitFramesSameTokens ==
    AllDelivered =>
        ForwardedTexts(index) = WholeFrames(sent, [inside |-> FALSE, tokens |-> <<>>])

\* the text s is inside a reasoning span at its end
RECURSIVE InsideAfter(_)
InsideAfter(s) ==
    IF s = <<>> THEN FALSE
    ELSE LET before == InsideAfter(SubSeq(s, 1, Len(s) - 1))
             c == s[Len(s)]
         IN IF c = "O" THEN TRUE ELSE IF c = "C" THEN FALSE ELSE before

\* the markers of s open and close in turn, "h" is the text inside the spans
\* and "v" the text outside them
Labelled(s) ==
    \A k \in DOMAIN s :
        LET before == InsideAfter(SubSeq(s, 1, k - 1)) IN
        /\ s[k] = "O" => ~before
        /\ s[k] = "C" => before
        /\ s[k] = "h" => before
        /\ s[k] = "v" => ~before

\* the text of fragment f after its last close marker
AfterLastClose(f) ==
    IF Includes(f, "C")
    THEN LET p == CHOOSE k \in DOMAIN f : f[k] = "C" /\ \A j \in (k + 1)..Len(f) : f[j] # "C"
         IN SubSeq(f, p + 1, Len(f))
    ELSE f

\* C8: with every frame arriving whole, no text from inside a reasoning span
\* is forwarded, and after a close marker forwarding is on again: the text
\* that follows the marker in its fragment, and the fragments after it, are
\* forwarded.
C8_ReasoningNeverForwarded ==
    (AllDelivered /\ ~cutInFrame /\ Labelled(Concat(sent))) =>
        LET fw == ForwardedTexts(index) IN
        /\ \A k \in DOMAIN fw : ~Includes(fw[k], "h")
        /\ ( /\ sent # <<>>
             /\ ~Includes(sent[Len(sent)], "O")
             /\ ~InsideAfter(Concat(sent))
             /\ AfterLastClose(sent[Len(sent)]) # <<>> )
           => /\ fw # <<>>
              /\ fw[Len(fw)] = AfterLastClose(sent[Len(sent)])

EndCount == Cardinality({k \in DOMAIN out : out[k].type = "end"})

\* C9 as stated: a request that streamed signals the end of the stream once,
\* by a {done: true} event, and writes no event after it.
C9_TerminalDoneEvent ==
    pc = "closed" =>
        LET dones == {k \in DOMAIN out : out[k].type = "done"} IN
        /\ Cardinality(dones) = 1
        /\ \A k \in dones : \A j \in (k + 1)..Len(out) : out[j].type = "end"

\* C9 as amended: a request that streamed ends its response exactly once, by
\* res.end() and without a {done: true} event; nothing is written after the
\* end; and an error event is followed by the end alone.
C9_EndsResponseOnce ==
    /\ EndCount <= 1
    /\ (pc = "closed") = (EndCount = 1)
    /\ EndCount = 1 => out[Len(out)].type = "end"
    /\ \A k \in DOMAIN out :
          /\ out[k].type \in {"chunk_start", "token", "error", "end"}
          /\ out[k].type = "error" => k = Len(out) - 1

\* C9 witness: one request ended after an error event that followed tokens
C9_Witness ==
    /\ pc = "closed"
    /\ Len(out) >= 4
    /\ out[Len(out)].type = "end"
    /\ out[Len(out) - 1].type = "error"
    /\ out[Len(out) - 2].type = "token"

\* the events of out are grouped by document chunk, in index order, each
\* group led by its chunk_start
InChunkOrder ==
    \A k \in DOMAIN out :
        /\ out[k].type = "chunk_start" =>
              out[k].index = Cardinality({j \in 1..(k - 1) : out[j].type = "chunk_start"})
        /\ out[k].type = "token" =>
              /\ \E j \in 1..(k - 1) : out[j] = ChunkStart(out[k].index)
              /\ \A j \in 1..(k - 1) : out[j].type # "end" => out[j].index <= out[k].index
              /\ \A j \in (k + 1)..Len(out) :
                    out[j].type = "chunk_start" => out[j].index > out[k].index

\* C10: the document chunks are handled one at a time in index order: the
\* request for chunk i+1 is issued only when the stream of chunk i has ended
\* (the backend closed it and every byte was delivered), and the tokens of
\* chunk i lie between chunk_start i and chunk_start i+1.
C10_ChunksOneAtATime ==
    /\ []InChunkOrder
    /\ [][ (pc' = "posting" /\ pc # "posting" /\ index' > 0) =>
              /\ pc = "streaming"
              /\ ~backendOpen
              /\ wire = <<>>
              /\ index' = index + 1
         ]_vars

\* C10 witness: the second chunk's request is out and both chunks forwarded
\* tokens
C10_Witness ==
    /\ index = 1
    /\ ForwardedTexts(0) # <<>>
    /\ ForwardedTexts(1) # <<>>

(***************************************************************************)
(* The caller disconnects (checked under SpecDisconnect).                  *)
(***************************************************************************)
\* the events among what was written to res
EventsOf(written) == SelectSeq(written, LAMBDA e : e.type # "end")

\* C11: once the caller has disconnected, no further event is written to
\* the response and no backend request for a later document chunk is issued.
C11_DisconnectStopsForwarding ==
    [][ disconnected =>
          /\ EventsOf(out') = EventsOf(out)
          /\ ~(pc' = "posting" /\ pc # "posting")
      ]_vars

(***************************************************************************)
(* Properties of the reasoning strip (checked under SpecStrip).            *)
(***************************************************************************)
\* s holds an open marker with a close marker after it
HasSpan(s) ==
    \E p \in DOMAIN s : MatchAt(s, OpenTag, p) /\ FindTag(s, CloseTag, p + 2) # 0

\* C12: both strip functions leave no <think>...</think> span (spans over
\* newlines included), return a reply without a span unchanged, and applied
\* twice give what they give applied once.
C12_StripRemovesSpansOnce ==
    /\ ~HasSpan(removeThinkingContent(reply))
    /\ ~HasSpan(extractFinalAnswer(reply))
    /\ ~HasSpan(reply) => /\ removeThinkingContent(reply) = reply
                          /\ extractFinalAnswer(reply) = reply
    /\ removeThinkingContent(removeThinkingContent(reply)) = removeThinkingContent(reply)
    /\ extractFinalAnswer(extractFinalAnswer(reply)) = extractFinalAnswer(reply)

\* C13: no user-visible value made of a backend reply (chat answer,
\* rewritten text, raw chunk output, plot summary, narrative structure)
\* holds a <think>...</think> span.
C13_ShownWithoutReasoning ==
    shown.kind # "none" => ~HasSpan(shown.text)

(***************************************************************************)
(* Properties of chunkText (checked under SpecChunk).                      *)
(***************************************************************************)
\* the characters of t that are not white space
Letters(t) == SelectSeq(t, LAMBDA c : ~IsSpace(c))

\* the texts of the returned chunks, one after the other
ChunkTexts == Flatten([k \in DOMAIN chunkOutput |-> chunkOutput[k].text])

\* C14: the chunks, concatenated in order and with the inserted separators
\* left aside, hold every non-empty paragraph of the input once, whole and
\* in order; white space, which is all the separators consist of, is left
\* out on both sides.
C14_ChunksKeepEveryParagraph ==
    chunkOutput # NotRun => Letters(ChunkTexts) = Letters(chunkInput.text)

\* t is one sentence: one paragraph with no sentence end inside it
IsSingleSentence(t) ==
    /\ \A k \in DOMAIN t : t[k] # "\n"
    /\ \A k \in 1..(Len(t) - 1) : t[k] = "." => t[k + 1] = "."

\* C15: no returned chunk has an estimated token count above maxTokens,
\* except a chunk that is one single sentence.
C15_ChunksWithinMaxTokens ==
    chunkOutput # NotRun =>
        \A k \in DOMAIN chunkOutput :
            \/ estimateTokenCount(chunkOutput[k].text) <= chunkInput.maxTokens
            \/ IsSingleSentence(chunkOutput[k].text)

\* the page number of the last page marker of t at or before offset pos
PageOfOffset(t, pos) ==
    LET at == {k \in 1..Len(t) : MarkerAt(t, k) /\ k - 1 <= pos}
    IN IF at = {} THEN NoPage
       ELSE PageNumber(t[(CHOOSE k \in at : \A j \in at : j <= k) + 5])

PageExample == JoinParas(<<PageMarker("1"), Letters4, PageMarker("2"), Letters4>>)

\* C16: pageStart of a chunk is the page of the last marker at or before the
\* character offset where the chunk starts in the text, pageEnd that of the
\* last marker at or before the offset where it ends; the text 'Page 1', a
\* paragraph, 'Page 2', a paragraph gives, with maxTokens = 1000, one chunk
\* with pageStart = 1 and pageEnd = 2.
C16_PagesOfChunk ==
    chunkOutput # NotRun =>
        /\ \A k \in DOMAIN chunkOutput :
              /\ chunkOutput[k].pageStart = PageOfOffset(chunkInput.text, chunkOutput[k].first)
              /\ chunkOutput[k].pageEnd = PageOfOffset(chunkInput.text, chunkOutput[k].last)
        /\ (chunkInput.text = PageExample /\ chunkInput.maxTokens = 1000) =>
              /\ Len(chunkOutput) = 1
              /\ chunkOutput[1].pageStart = 1
              /\ chunkOutput[1].pageEnd = 2

\* a result that says "not found": status not_found of getAnalysisResults,
\* or the 404 of the router
IsNotFound(res) ==
    IF res.op = "results" THEN res.result.status = "not_found"
    ELSE res.success = FALSE /\ res.message = "404"

\* C22: a request to start an analysis or to get the results for a book id
\* without an entry in the map ends with a not-found result, not with a
\* thrown error, and changes nothing in the map, the objects, the cache and
\* the runs.
C22_UnknownIdIsNotFound ==
    [][ (/\ lastResult'.op \in {"analyze", "results"}
         /\ bookAnalysesMap[lastResult'.bookId] = NoObj)
        => (/\ IsNotFound(lastResult')
            /\ UNCHANGED <<bookAnalysesMap, heap, cache, runs>>) ]_vars

(***************************************************************************)
(* Properties of the synthesizer (checked under SpecSynth).                *)
(***************************************************************************)
\* analyzeBook has returned or thrown
RunOver == synthesis.pc \in {"done", "again", "failed"}

\* the book has chunks and analyzeChunk threw for each of them
EveryChunkThrew == bookAnalysis.totalChunks > 0 /\ synthesis.analyses = <<>>

\* C17: when the analysis of every chunk threw, the run ends completed with
\* empty characters, themes, settings, timeline, majorEvents and keyQuotes
\* and with the placeholder text as plotSummary.
C17_AllChunksThrowGivesPlaceholder ==
    (RunOver /\ EveryChunkThrew) =>
        /\ bookAnalysis.status = "completed"
        /\ bookAnalysis.globalAnalysis.characters = <<>>
        /\ bookAnalysis.globalAnalysis.themes = <<>>
        /\ bookAnalysis.globalAnalysis.settings = <<>>
        /\ bookAnalysis.globalAnalysis.timeline = <<>>
        /\ bookAnalysis.globalAnalysis.majorEvents = <<>>
        /\ bookAnalysis.globalAnalysis.keyQuotes = <<>>
        /\ bookAnalysis.globalAnalysis.plotSummary = PlotPlaceholder

\* the structure types that say "not determined"
UndeterminedTypes == {"Unknown", "Unable to determine"}

\* the synthesis is past the plot-summary request
PastPlot == synthesis.pc \in {"structure", "done", "again"}

\* the synthesis has returned to analyzeBook
Returned == synthesis.pc \in {"done", "again"}

ChunksAsAnalysed ==
    \A k \in DOMAIN synthesis.analyses : bookAnalysis.chunks[k] = synthesis.analyses[k]

\* C19: a second synthesis over the same chunks gives the same characters,
\* themes and settings lists as the first, and no synthesis changes the
\* chunk analyses it reads.
C19_AggregationIdempotent ==
    /\ synthesis.pc \in {"plot", "structure", "done", "again"} => ChunksAsAnalysed
    /\ synthesis.pc = "again" =>
           /\ synthesis.again.characters = bookAnalysis.globalAnalysis.characters
           /\ synthesis.again.themes = bookAnalysis.globalAnalysis.themes
           /\ synthesis.again.settings = bookAnalysis.globalAnalysis.settings

\* C19 witness: the second synthesis ran over chunks whose mentions were
\* merged: a character with two appearances and a joined description, a
\* theme and a setting with two occurrences
C19_Witness ==
    /\ synthesis.pc = "again"
    /\ \E e \in DOMAIN synthesis.again.characters :
           /\ synthesis.again.characters[e].appearances >= 2
           /\ Len(synthesis.again.characters[e].description) > 1
    /\ \E e \in DOMAIN synthesis.again.themes :
           synthesis.again.themes[e].occurrences >= 2
    /\ \E e \in DOMAIN synthesis.again.settings :
           synthesis.again.settings[e].occurrences >= 2

\* a name without its letter case, its punctuation and its extra whitespace
WordsOf(name) == Trim(CollapseWhitespace(RemovePunctuation(toLowerCase(name))))

\* the named character mentions of the analysed chunks, as <<chunk, mention>>
NamedMentions ==
    { m \in (DOMAIN bookAnalysis.chunks) \X (1..MaxMentions) :
          /\ bookAnalysis.chunks[m[1]].chunkId # 0
          /\ m[2] \in DOMAIN bookAnalysis.chunks[m[1]].characters
          /\ bookAnalysis.chunks[m[1]].characters[m[2]].name # <<>> }

\* C20: mentions whose names differ only by letter case, punctuation or
\* whitespace are one entry: the appearances of every character entry count
\* all the named mentions that have its name up to those differences.
C20_SameNameOneEntry ==
    Returned =>
        \A e \in DOMAIN bookAnalysis.globalAnalysis.characters :
            bookAnalysis.globalAnalysis.characters[e].appearances =
                Cardinality({ m \in NamedMentions :
                    WordsOf(bookAnalysis.chunks[m[1]].characters[m[2]].name)
                        = WordsOf(bookAnalysis.globalAnalysis.characters[e].name) })

(***************************************************************************)
(* Properties of the key-quote selection (checked under SpecQuotes).       *)
(***************************************************************************)
\* the place of quote q in the page-ordered list of the collected quotes
PlaceOf(q) ==
    CHOOSE k \in DOMAIN SortedByPage(collected) : SortedByPage(collected)[k] = q

\* the section (0..4) quote q lies in
SectionOf(q) == (PlaceOf(q) - 1) \div ((Len(collected) + 4) \div 5)

\* the sections the selected quotes come from
SelectedSections == {SectionOf(selected[k]) : k \in DOMAIN selected}

\* the page-ordered list holds the collected quotes, in non-decreasing page
PageOrdered ==
    /\ Len(SortedByPage(collected)) = Len(collected)
    /\ \A k \in DOMAIN collected : \E j \in DOMAIN collected :
           SortedByPage(collected)[j] = collected[k]
    /\ \A k \in 1..(Len(collected) - 1) :
           SortedByPage(collected)[k].page <= SortedByPage(collected)[k + 1].page

\* C21: at most 10 quotes are selected; up to 10 collected quotes are all
\* selected; of more than 10, the selected ones are collected quotes taken
\* from at least 3 of the 5 sections of the page-ordered list, at most 2
\* from each section.
C21_KeyQuoteSelection ==
    selected # NotRun =>
        /\ Len(selected) <= 10
        /\ Len(collected) <= 10 => selected = collected
        /\ Len(collected) > 10 =>
               /\ PageOrdered
               /\ \A k \in DOMAIN selected : \E j \in DOMAIN collected :
                      selected[k] = collected[j]
               /\ \A j, k \in DOMAIN selected : selected[j] = selected[k] => j = k
               /\ SelectedSections \subseteq 0..4
               /\ Cardinality(SelectedSections) >= 3
               /\ \A sec \in 0..4 :
                      Cardinality({k \in DOMAIN selected : SectionOf(selected[k]) = sec}) <= 2

\* C21 witness: more than 10 quotes were collected, not in page order, and
\* the selection left some of them out
C21_Witness ==
    /\ selected # NotRun
    /\ Len(collected) > 10
    /\ \E k \in 1..(Len(collected) - 1) : collected[k].page > collected[k + 1].page
    /\ Len(selected) < Len(collected)

(***************************************************************************)
(* Further properties of the synthesizer (checked under SpecSynth).        *)
(***************************************************************************)
\* the synthesis has built its timeline and major events
HasTimeline == synthesis.pc \in {"plot", "structure", "done", "again"}

\* the events with a description in the analyses attached to the chunks
DescribedEvents ==
    { ce \in (DOMAIN bookAnalysis.chunks) \X (1..2) :
          /\ bookAnalysis.chunks[ce[1]].chunkId # 0
          /\ ce[2] \in DOMAIN bookAnalysis.chunks[ce[1]].events
          /\ bookAnalysis.chunks[ce[1]].events[ce[2]].description # <<>> }

\* C23: timeline and majorEvents list their events in non-decreasing chunk
\* position, timeline has one entry for each described event, and no event
\* is twice in majorEvents.
C23_OrderedByChunkPosition ==
    HasTimeline =>
        /\ Len(synthesis.global.timeline) = Cardinality(DescribedEvents)
        /\ \A k \in 1..(Len(synthesis.global.timeline) - 1) :
               synthesis.global.timeline[k].page <= synthesis.global.timeline[k + 1].page
        /\ \A j, k \in DOMAIN synthesis.global.majorEvents :
               synthesis.global.majorEvents[j] = synthesis.global.majorEvents[k] => j = k
        /\ \A k \in 1..(Len(synthesis.global.majorEvents) - 1) :
               synthesis.global.majorEvents[k].position
                   <= synthesis.global.majorEvents[k + 1].position

(***************************************************************************)
(* Further properties of the book service (checked under SpecBook).        *)
(***************************************************************************)
\* the BookAnalysis objects bookAnalysesMap holds
BookEntries == { heap[bookAnalysesMap[b]] : b \in {c \in BookIds : bookAnalysesMap[c] # NoObj} }

\* C27: in every state of a book entry, error is set exactly when the status
\* is failed, a completed entry has its start and end time set, both read by
\* the run that produced its globalAnalysis, and chunksAnalyzed lies between
\* 0 and totalChunks
C27_StatusFieldsConsistent ==
    \A o \in BookEntries :
        /\ (o.error # NoError) <=> (o.status = "failed")
        /\ o.status = "completed" =>
               /\ o.startTime # NoTime
               /\ o.endTime # NoTime
               /\ o.startTime = Now(o.globalAnalysis.run)
               /\ o.endTime = Now(o.globalAnalysis.run)
        /\ 0 <= o.chunksAnalyzed
        /\ o.chunksAnalyzed <= o.totalChunks

\* run r is over and getAnalysisResults reports its book completed or failed
Settled(r) ==
    /\ r \in DOMAIN runs
    /\ runs[r].pc \in {"done", "failed"}
    /\ getAnalysisResults(runs[r].bookId).status \in {"completed", "failed"}

\* C26 (checked under SpecOneBook): once a run has started and its requests
\* to the backend all return or fail, getAnalysisResults comes to report the
\* book of the run completed or failed, whatever loadAndProcessBook calls
\* fall into the run
C26_RunComesToAnEnd == \A r \in 1..MaxRuns : (r \in DOMAIN runs) ~> Settled(r)

\* C28: a cache file holds a completed analysis, and the entry of a book,
\* loaded from the cache or not, is never the analysis saved for another
\* book id
C28_CacheKeepsBooksApart ==
    /\ \A p \in CachePaths : cache[p].present => cache[p].status = "completed"
    /\ \A b \in BookIds :
           bookAnalysesMap[b] # NoObj => heap[bookAnalysesMap[b]].bookInfo = b

(***************************************************************************)
(* A further property of the streaming rewrite.                            *)
(***************************************************************************)
\* C29 (checked under SpecBrokenStream): when the request for a chunk is sent
\* to the backend, the buffer holds no bytes of the stream of the chunk
\* before it and the flag is false
C29_NothingLeftOver ==
    pc = "posting" => (buffer = <<>> /\ ~insideThinkingBlock)

\* the analyses are attached: analyzeBook is past analyzeChunks
AnalysesAttached == synthesis.pc \in {"plot", "structure", "done", "again"}

\* the chunks whose analyzeChunk threw
FailedChunks ==
    { k \in 1..bookAnalysis.totalChunks :
          \A n \in DOMAIN synthesis.analyses : synthesis.analyses[n].chunkId # k }

\* C25: after a run in which the analysis of some chunk failed, a chunk with
\* an analysis attached carries the analysis of that chunk itself, and a
\* chunk whose analysis failed carries none
C25_AnalysisOfItsOwnChunk ==
    (AnalysesAttached /\ FailedChunks # {}) =>
        \A k \in DOMAIN bookAnalysis.chunks :
            /\ bookAnalysis.chunks[k].chunkId \in {0, k}
            /\ k \in FailedChunks => bookAnalysis.chunks[k].chunkId = 0

(***************************************************************************)
(* Properties of analyzeChunk (checked under SpecParse).                   *)
(***************************************************************************)
\* no JSON object is found in the reply, or parsing it fails
NotJson(lines) ==
    \/ ~jsonMatch(lines).found
    \/ ~JsonParse(jsonMatch(lines).jsonStr).ok

ListFields(analysis) ==
    << analysis.characters, analysis.events, analysis.themes, analysis.keyQuotes,
       analysis.settings, analysis.style.literaryDevices, analysis.style.notable >>

NoLineIn(text, lines) == \A i \in 1..Len(text) : text[i] \notin lines

\* C24: whatever text the model replies, analyzeChunk returns; when no JSON
\* object is found in the reply or parsing it fails, the sections are
\* extracted from the text instead and every list field of the analysis
\* returned is a list, empty when the reply has no line to extract
C24_ParseFailureFallsBack ==
    (parsedAnalysis.kind # "none" /\ modelReply.kind = "text") =>
        /\ parsedAnalysis.kind = "returned"
        /\ NotJson(modelReply.lines) =>
            /\ parsedAnalysis.via = "heuristic"
            /\ \A i \in 1..7 : ListFields(parsedAnalysis.analysis)[i].type = "array"
            /\ NoLineIn(modelReply.lines, BulletLines) =>
                   /\ parsedAnalysis.analysis.characters.items = <<>>
                   /\ parsedAnalysis.analysis.events.items = <<>>
                   /\ parsedAnalysis.analysis.settings.items = <<>>
            /\ NoLineIn(modelReply.lines, {"- imagery"}) =>
                   parsedAnalysis.analysis.style.literaryDevices.items = <<>>

\* a reply with braces around something that is no JSON, and a character
\* extracted from its text
C24_Witness ==
    /\ modelReply.kind = "text"
    /\ jsonMatch(modelReply.lines).found
    /\ ~JsonParse(jsonMatch(modelReply.lines).jsonStr).ok
    /\ parsedAnalysis.kind = "returned"
    /\ parsedAnalysis.via = "heuristic"
    /\ parsedAnalysis.analysis.characters.items # <<>>

(***************************************************************************)
(* Properties of the PDF viewer (checked under SpecViewer).                *)
(***************************************************************************)
\* no render is in progress and none is pending
Quiet == viewer.kind = "open" /\ viewer.inFlight = <<>>

ViewerInvariant ==
    /\ Len(viewer.inFlight) <= 1
    /\ viewer.pageRendering <=> viewer.inFlight # <<>>
    /\ viewer.pageNum \in 1..viewer.numPages
    /\ viewer.pageNumPending # 0 =>
           /\ viewer.inFlight # <<>>
           /\ viewer.pageNumPending = viewer.pageNum
    /\ Quiet =>
           /\ viewer.rendered = viewer.pageNum
           /\ viewer.pageNumText = viewer.pageNum

\* a render ends while a page is pending: that page is rendered next, and
\* nothing is pending any more
PendingRenderedNext ==
    ( /\ viewer.inFlight # <<>>
      /\ viewer.inFlight[1].phase = "render"
      /\ viewer.pageNumPending # 0
      /\ viewer'.inFlight # viewer.inFlight )
    => /\ viewer'.inFlight = <<[page |-> viewer.pageNumPending, phase |-> "getPage"]>>
       /\ viewer'.pageNumPending = 0
       /\ viewer'.rendered = viewer.inFlight[1].page

\* C30: no render starts while another is in progress; the page requested
\* last during a render, and only that one, is rendered when the render
\* ends; when nothing is rendering the canvas shows page pageNum, which
\* stays within 1..numPages
C30_OneRenderAtATime == []ViewerInvariant /\ [][PendingRenderedNext]_vars

\* page 1 is being rendered, pages 2 and then 3 were requested meanwhile
C30_Witness ==
    /\ viewer.kind = "open"
    /\ viewer.inFlight # <<>>
    /\ viewer.inFlight[1].page = 1
    /\ viewer.rendered = 0
    /\ viewer.pageNum = 3
    /\ viewer.pageNumPending = 3

====
